---- MODULE Spec2Model ----
(***************************************************************************)
(* Fuel-station inventory and sales tracker: the inventory/pricing engine  *)
(* (create_fuel_type, update_price, refill_stock, record_sale) run by      *)
(* concurrent request threads, each in its own store transaction           *)
(* (session_scope), against a PostgreSQL store at READ COMMITTED.          *)
(*                                                                         *)
(* Quantities are exact decimals held as integers: litres and prices in    *)
(* thousandths (Numeric(_, 3)), amounts in hundredths (Numeric(14, 2)).    *)
(* Timestamps are values of a logical clock; NOW() is the start time of    *)
(* the calling transaction.                                                *)
(*                                                                         *)
(* Store semantics modelled per statement:                                 *)
(*  - a statement reads the rows committed when it starts (its snapshot);  *)
(*  - an UPDATE locks the rows it changes until its transaction ends; an   *)
(*    UPDATE whose target row is locked by another transaction waits, and  *)
(*    then re-evaluates its WHERE clause on the latest committed version   *)
(*    of that row only (rows committed meanwhile are not in its snapshot); *)
(*  - the writes of a transaction become visible at its commit, all at     *)
(*    once, and are discarded at rollback;                                 *)
(*  - sequences (fuel_types.id) are not transactional.                     *)
(* The CHECK constraints of the tables are stated as predicates (ck_...);  *)
(* the engine's own guards are what the transitions apply.                 *)
(***************************************************************************)
EXTENDS Integers, Sequences, FiniteSets, TLC

VARIABLES
  fuel_types,          \* committed rows of fuel_types: id -> row
  fuel_price_history,  \* committed rows of fuel_price_history, in commit order
  sales,               \* committed rows of sales, in commit order
  fuel_types_id_seq,   \* last value handed out by the id sequence of fuel_types
  clock,               \* the store's clock
  tx,                  \* per request thread: the call in progress and its transaction
  calls,               \* per request thread: the number of calls it has made
  log                  \* finished calls with their outcome, in order of completion

vars ==
  <<fuel_types, fuel_price_history, sales, fuel_types_id_seq, clock, tx, calls, log>>
db == <<fuel_types, fuel_price_history, sales>>

\* ------------------------------------------------------------------ bounds

\* Request threads of the scenario with several competing sales.
NumWorkers == 3
\* Calls made in a run of the general specification.
MaxCalls == 2

Workers == 1..NumWorkers
\* The two competing request threads of the general specification.
MainThreads == { 1, 2 }

\* ------------------------------------------------------------------ inputs

\* Names are sequences of characters, so that strip() has something to do.
\* Prices are thousandths of a currency unit per litre, stocks and litres
\* thousandths of a litre.
CreateInputs ==
  { << <<"D">>, 1005, 1000 >>, << <<"D">>, 0, 1500 >>, << <<" ", "D", "\t">>, 1005, 500 >>,
    << <<"d">>, 1005, 1000 >>, << <<"D">>, -1, 1000 >>, << <<"D">>, 1005, -1 >> }
PriceInputs == { -1, 0, 1005 }
LitresInputs == { 0, 500, 1000 }
IdInputs == { 1, 2 }

\* ------------------------------------------------------------------ pure helpers

to_decimal(val) == val

\* The characters str.strip() removes: those str.isspace() holds of. A character
\* that has no escape in a string here is written as its code point.
Whitespace ==
  { " ", "\t", "\n", "\r", "\f", "U+000B", "U+001C", "U+001D", "U+001E", "U+001F",
    "U+0085", "U+00A0", "U+1680", "U+2000", "U+2001", "U+2002", "U+2003", "U+2004",
    "U+2005", "U+2006", "U+2007", "U+2008", "U+2009", "U+200A", "U+2028", "U+2029",
    "U+202F", "U+205F", "U+3000" }

RECURSIVE lstrip(_)
lstrip(s) == IF s # <<>> /\ Head(s) \in Whitespace THEN lstrip(Tail(s)) ELSE s

RECURSIVE rstrip(_)
rstrip(s) ==
  IF s # <<>> /\ s[Len(s)] \in Whitespace THEN rstrip(SubSeq(s, 1, Len(s) - 1)) ELSE s

strip(name) == rstrip(lstrip(name))

ck_ft_price_ge_0(row) == row.price_per_litre >= 0
ck_ft_stock_ge_0(row) == row.stock_litres >= 0
ck_fph_price_ge_0(seg) == seg.price_per_litre >= 0
ck_sales_litres_gt_0(sale) == sale.litres > 0
ck_sales_price_ge_0(sale) == sale.price_at_sale >= 0
ck_sales_amount_ge_0(sale) == sale.amount >= 0

\* Variant: the product cut off after two decimals instead of rounded.
sale_amount_truncated(litres, price) == (litres * price) \div 10000
\* (:litres * price_per_litre) stored into Numeric(14, 2): the exact product, in
\* millionths, rounded half up to hundredths.
sale_amount(litres, price) == (litres * price + 5000) \div 10000

\* A stock is kept in two limbs, so that the largest value of the column fits
\* 32-bit integer arithmetic: stock_e9 counts units of 10^9 thousandths of a
\* litre (a million litres) and stock_litres the thousandths below that; the
\* litres of a call likewise (litres_e9, litres). The litres of a sale are
\* below a million litres in every input.
E9 == 1000000000
\* FuelType.stock_litres is Numeric(14, 3): 14 digits, 3 of them decimals.
StockPrecision == 14

\* stock_litres + :litres, with the carry of the lower limb.
stock_sum(row, t) ==
  [e9 |-> row.stock_e9 + t.litres_e9 + ((row.stock_litres + t.litres) \div E9),
   low |-> (row.stock_litres + t.litres) % E9]

\* A value fits Numeric(14, 3) when it is below 10^14 thousandths.
numeric_fits(v) == v.e9 < 10^(StockPrecision - 9)

\* Variants: the decrement without its stock condition, and with a strict one.
sale_where_always(row, litres) == TRUE
sale_where_strict(row, litres) == row.stock_e9 > 0 \/ row.stock_litres > litres
\* WHERE clause of record_sale's conditional decrement, on one row.
sale_where(row, litres) == row.stock_e9 > 0 \/ row.stock_litres >= litres

\* ------------------------------------------------------------------ transactions

NoRet == [stock |-> 0, stock_e9 |-> 0, price |-> 0, amount |-> 0, at |-> 0]

Idle ==
  [pc |-> "idle", op |-> "none", id |-> 0, name |-> <<>>, price |-> 0,
   litres |-> 0, litres_e9 |-> 0, now |-> 0, snap_row |-> {}, snap_segs |-> {},
   w_ft |-> <<>>, w_close |-> {}, w_hist |-> <<>>, w_sale |-> <<>>,
   ret |-> NoRet, start |-> {}, end |-> {}, granularity |-> "day",
   result |-> <<>>]

InFlight == { w \in Workers : tx[w].pc # "idle" }
RECURSIVE CallsUpTo(_)
CallsUpTo(n) == IF n = 0 THEN 0 ELSE calls[n] + CallsUpTo(n - 1)
MayCall(w) == tx[w].pc = "idle" /\ CallsUpTo(NumWorkers) < MaxCalls

\* A row of fuel_types is locked against w when another transaction holds an
\* uncommitted update of it.
Locked(id, w) == \E v \in Workers \ {w} : id \in DOMAIN tx[v].w_ft

\* A history segment is locked against w when another transaction holds an
\* uncommitted update (close) of it.
SegLocked(i, w) == \E v \in Workers \ {w} : i \in tx[v].w_close

\* The names of uncommitted inserts into fuel_types by other transactions.
NewRows(v) ==
  { tx[v].w_ft[i] : i \in { j \in DOMAIN tx[v].w_ft : j \notin DOMAIN fuel_types } }
\* Variant: an uncommitted row of another transaction is not seen by the unique
\* index, so the insert does not wait for it.
PendingNames_unseen(w) == {}
PendingNames(w) ==
  UNION { { r.name : r \in NewRows(v) } : v \in Workers \ {w} }

CommittedNames == { fuel_types[i].name : i \in DOMAIN fuel_types }

\* Variant: the statement keeps working on the row version of its snapshot.
snapshot_row(w, id) == CHOOSE r \in tx[w].snap_row : TRUE
\* The version of row id a statement of w works on once it holds the row lock:
\* the latest committed one.
locked_row(w, id) == fuel_types[id]

EntryAt(t, outcome, at) ==
  [op |-> t.op, id |-> t.id, name |-> t.name, price |-> t.price,
   litres |-> t.litres, litres_e9 |-> t.litres_e9, outcome |-> outcome,
   begin_at |-> t.now,
   end_at |-> at, ret |-> IF outcome = "ok" THEN t.ret ELSE NoRet]
Entry(t, w, outcome) == EntryAt(t, outcome, clock)

\* The call of w ends without a transaction (validation failed before any
\* statement was issued).
Reject(w, t) ==
  /\ log' = Append(log, Entry([t EXCEPT !.now = clock], w, "Validation"))
  /\ calls' = [calls EXCEPT ![w] = @ + 1]
  /\ UNCHANGED <<db, fuel_types_id_seq, clock, tx>>

\* The first statement of the call opens the transaction: NOW() is fixed here.
Begin(w, t) ==
  /\ tx' = [tx EXCEPT ![w] = [t EXCEPT !.now = clock]]
  /\ clock' = clock + 1
  /\ calls' = [calls EXCEPT ![w] = @ + 1]
  /\ UNCHANGED <<db, fuel_types_id_seq, log>>

\* Variant: the exception path without s.rollback(): the rows written so far
\* reach the store.
Rollback_keeps_writes(w, outcome) ==
  /\ log' = Append(log, Entry(tx[w], w, outcome))
  /\ tx' = [tx EXCEPT ![w] = Idle]
  /\ clock' = clock + 1
  /\ fuel_types' = tx[w].w_ft @@ fuel_types
  /\ fuel_price_history' = fuel_price_history \o tx[w].w_hist
  /\ sales' = sales \o tx[w].w_sale
  /\ UNCHANGED <<fuel_types_id_seq, calls>>

\* session_scope: the exception path. The writes of the transaction are dropped.
Rollback(w, outcome) ==
  /\ log' = Append(log, Entry(tx[w], w, outcome))
  /\ tx' = [tx EXCEPT ![w] = Idle]
  /\ clock' = clock + 1
  /\ UNCHANGED <<db, fuel_types_id_seq, calls>>

CloseSeg(seg, at) == [seg EXCEPT !.valid_to = {at}]

\* Variant: a committed price change is applied to the recorded sales of the
\* fuel type as well.
Commit_reprices_sales(w) ==
  /\ tx[w].pc = "commit"
  /\ fuel_types' = tx[w].w_ft @@ fuel_types
  /\ fuel_price_history' =
       [i \in 1..Len(fuel_price_history) |->
          IF i \in tx[w].w_close
          THEN CloseSeg(fuel_price_history[i], tx[w].now)
          ELSE fuel_price_history[i]] \o tx[w].w_hist
  /\ sales' =
       [n \in 1..Len(sales) |->
          IF tx[w].op = "update_price" /\ sales[n].fuel_type_id = tx[w].id
          THEN [sales[n] EXCEPT !.price_at_sale = tx[w].price]
          ELSE sales[n]] \o tx[w].w_sale
  /\ log' = Append(log, Entry(tx[w], w, "ok"))
  /\ tx' = [tx EXCEPT ![w] = Idle]
  /\ clock' = clock + 1
  /\ UNCHANGED <<fuel_types_id_seq, calls>>

\* Variant: the commit makes the writes visible and leaves the row locks of
\* the transaction in place.
Commit_keeps_locks(w) ==
  /\ tx[w].pc = "commit"
  /\ fuel_types' = tx[w].w_ft @@ fuel_types
  /\ fuel_price_history' =
       [i \in 1..Len(fuel_price_history) |->
          IF i \in tx[w].w_close
          THEN CloseSeg(fuel_price_history[i], tx[w].now)
          ELSE fuel_price_history[i]] \o tx[w].w_hist
  /\ sales' = sales \o tx[w].w_sale
  /\ log' = Append(log, Entry(tx[w], w, "ok"))
  /\ tx' = [tx EXCEPT ![w] = [Idle EXCEPT !.w_ft = tx[w].w_ft,
                                          !.w_close = tx[w].w_close]]
  /\ clock' = clock + 1
  /\ UNCHANGED <<fuel_types_id_seq, calls>>

\* session_scope: the normal path. All writes of the transaction become
\* visible at once.
Commit(w) ==
  /\ tx[w].pc = "commit"
  /\ fuel_types' = tx[w].w_ft @@ fuel_types
  /\ fuel_price_history' =
       [i \in 1..Len(fuel_price_history) |->
          IF i \in tx[w].w_close
          THEN CloseSeg(fuel_price_history[i], tx[w].now)
          ELSE fuel_price_history[i]] \o tx[w].w_hist
  /\ sales' = sales \o tx[w].w_sale
  /\ log' = Append(log, Entry(tx[w], w, "ok"))
  /\ tx' = [tx EXCEPT ![w] = Idle]
  /\ clock' = clock + 1
  /\ UNCHANGED <<fuel_types_id_seq, calls>>

\* ------------------------------------------------------------------ record_sale

\* Variant: the litres are not validated before the statement is issued.
record_sale_call_unvalidated(w, id, litres) ==
  Begin(w, [Idle EXCEPT !.op = "record_sale", !.id = id, !.litres = litres,
                        !.pc = "sale_stmt"])

\* if litres <= 0: raise ValidationError, before any statement
record_sale_call(w, id, litres) ==
  LET t == [Idle EXCEPT !.op = "record_sale", !.id = id, !.litres = litres,
                        !.pc = "sale_stmt"]
  IN IF litres <= 0 THEN Reject(w, t) ELSE Begin(w, t)

Call_record_sale(w) ==
  /\ MayCall(w)
  /\ \E id \in IdInputs, litres \in LitresInputs : record_sale_call(w, id, litres)

sale_apply(t, row) ==
  [t EXCEPT
     !.pc = "commit",
     !.w_ft = (t.id :> [row EXCEPT
                          !.stock_litres = IF row.stock_e9 > 0 /\ @ < t.litres
                                           THEN @ + E9 - t.litres ELSE @ - t.litres,
                          !.stock_e9 = IF @ > 0 /\ row.stock_litres < t.litres
                                       THEN @ - 1 ELSE @,
                          !.updated_at = t.now]),
     !.w_sale = << [fuel_type_id |-> t.id, litres |-> t.litres,
                    price_at_sale |-> row.price_per_litre,
                    amount |-> sale_amount(t.litres, row.price_per_litre),
                    sold_at |-> t.now] >>,
     !.ret = [NoRet EXCEPT !.price = row.price_per_litre,
                           !.amount = sale_amount(t.litres, row.price_per_litre),
                           !.at = t.now]]

\* Variant: a row locked by another transaction is passed over instead of
\* waited for (the decrement as a SKIP LOCKED / NOWAIT update).
record_sale_stmt_skip_locked(w) ==
  /\ tx[w].pc = "sale_stmt"
  /\ LET id == tx[w].id IN
       IF id \in DOMAIN fuel_types /\ sale_where(fuel_types[id], tx[w].litres)
          /\ ~Locked(id, w)
       THEN tx' = [tx EXCEPT ![w] = sale_apply(@, fuel_types[id])]
       ELSE tx' = [tx EXCEPT ![w].pc = "sale_exists"]
  /\ UNCHANGED <<db, fuel_types_id_seq, clock, calls, log>>

\* Variant: the row is locked first and the stock condition evaluated after
\* (SELECT ... FOR UPDATE, then the decrement), so a statement that finds the
\* row locked waits whatever the stock of its snapshot.
record_sale_stmt_lock_first(w) ==
  /\ tx[w].pc = "sale_stmt"
  /\ LET id == tx[w].id IN
       IF id \in DOMAIN fuel_types
       THEN IF Locked(id, w)
            THEN tx' = [tx EXCEPT ![w].pc = "sale_wait",
                                  ![w].snap_row = {fuel_types[id]}]
            ELSE IF sale_where(fuel_types[id], tx[w].litres)
                 THEN tx' = [tx EXCEPT ![w] = sale_apply(@, fuel_types[id])]
                 ELSE tx' = [tx EXCEPT ![w].pc = "sale_exists"]
       ELSE tx' = [tx EXCEPT ![w].pc = "sale_exists"]
  /\ UNCHANGED <<db, fuel_types_id_seq, clock, calls, log>>

\* WITH updated AS (UPDATE ... WHERE id AND stock_litres >= :litres RETURNING ...)
\* INSERT INTO sales ... SELECT ... FROM updated RETURNING ...
record_sale_stmt(w) ==
  /\ tx[w].pc = "sale_stmt"
  /\ LET id == tx[w].id IN
       IF id \in DOMAIN fuel_types /\ sale_where(fuel_types[id], tx[w].litres)
       THEN IF Locked(id, w)
            THEN tx' = [tx EXCEPT ![w].pc = "sale_wait",
                                  ![w].snap_row = {fuel_types[id]}]
            ELSE tx' = [tx EXCEPT ![w] = sale_apply(@, fuel_types[id])]
       ELSE tx' = [tx EXCEPT ![w].pc = "sale_exists"]
  /\ UNCHANGED <<db, fuel_types_id_seq, clock, calls, log>>

\* The statement gets the row lock after waiting and re-evaluates its WHERE
\* clause on the row as it is now.
record_sale_resume(w) ==
  /\ tx[w].pc = "sale_wait"
  /\ ~Locked(tx[w].id, w)
  /\ LET row == locked_row(w, tx[w].id) IN
       IF sale_where(row, tx[w].litres)
       THEN tx' = [tx EXCEPT ![w] = sale_apply([@ EXCEPT !.snap_row = {}], row)]
       ELSE tx' = [tx EXCEPT ![w].pc = "sale_exists", ![w].snap_row = {}]
  /\ UNCHANGED <<db, fuel_types_id_seq, clock, calls, log>>

\* Variant: an empty result of the decrement is always reported as
\* insufficient stock, without the existence check.
record_sale_exists_unchecked(w) ==
  /\ tx[w].pc = "sale_exists"
  /\ Rollback(w, "InsufficientStock")

\* if not row: SELECT 1 FROM fuel_types WHERE id = :id
record_sale_exists(w) ==
  /\ tx[w].pc = "sale_exists"
  /\ IF tx[w].id \in DOMAIN fuel_types
     THEN Rollback(w, "InsufficientStock")
     ELSE Rollback(w, "NotFound")

\* ------------------------------------------------------------------ refill_stock

Call_refill_stock(w) ==
  /\ MayCall(w)
  /\ \E id \in IdInputs, litres \in LitresInputs :
       LET t == [Idle EXCEPT !.op = "refill_stock", !.id = id, !.litres = litres,
                             !.pc = "refill_stmt"]
       IN IF litres <= 0 THEN Reject(w, t) ELSE Begin(w, t)

\* Variant: the statement returns the stock as it was before the addition.
refill_apply_returns_old(t, row) ==
  [t EXCEPT
     !.pc = "commit",
     !.snap_row = {},
     !.w_ft = (t.id :> [row EXCEPT !.stock_litres = stock_sum(row, t).low,
                                   !.stock_e9 = stock_sum(row, t).e9,
                                   !.updated_at = t.now]),
     !.ret = [NoRet EXCEPT !.stock = row.stock_litres, !.stock_e9 = row.stock_e9]]

refill_apply(t, row) ==
  [t EXCEPT
     !.pc = "commit",
     !.snap_row = {},
     !.w_ft = (t.id :> [row EXCEPT !.stock_litres = stock_sum(row, t).low,
                                   !.stock_e9 = stock_sum(row, t).e9,
                                   !.updated_at = t.now]),
     !.ret = [NoRet EXCEPT !.stock = stock_sum(row, t).low,
                           !.stock_e9 = stock_sum(row, t).e9]]

\* The new value of the UPDATE of refill_stock, computed from row: a sum that
\* does not fit the column makes the statement fail (numeric field overflow),
\* and the exception ends the call.
refill_stock_update(w, row) ==
  IF numeric_fits(stock_sum(row, tx[w]))
  THEN /\ tx' = [tx EXCEPT ![w] = refill_apply(@, row)]
       /\ UNCHANGED <<db, fuel_types_id_seq, clock, calls, log>>
  ELSE Rollback(w, "DataError")

\* Variant: a refill of an id without a row writes a row for it (an upsert)
\* instead of raising NotFoundError.
refill_stock_stmt_upsert(w) ==
  /\ tx[w].pc = "refill_stmt"
  /\ LET id == tx[w].id IN
       IF id \in DOMAIN fuel_types
       THEN IF ~numeric_fits(stock_sum(fuel_types[id], tx[w]))
            THEN Rollback(w, "DataError")
            ELSE IF Locked(id, w)
                 THEN /\ tx' = [tx EXCEPT ![w].pc = "refill_wait",
                                          ![w].snap_row = {fuel_types[id]}]
                      /\ UNCHANGED <<db, fuel_types_id_seq, clock, calls, log>>
                 ELSE refill_stock_update(w, fuel_types[id])
       ELSE /\ tx' = [tx EXCEPT ![w] =
                        refill_apply(@, [name |-> <<>>, price_per_litre |-> 0,
                                         stock_litres |-> 0, stock_e9 |-> 0,
                                         created_at |-> tx[w].now,
                                         updated_at |-> tx[w].now])]
            /\ UNCHANGED <<db, fuel_types_id_seq, clock, calls, log>>

\* UPDATE fuel_types SET stock_litres = stock_litres + :litres WHERE id = :id
\* RETURNING id, stock_litres; if not row: raise NotFoundError
\* The statement computes the new value from the row of its snapshot before it
\* takes the lock of the row, so a sum that does not fit the column fails at
\* once, whoever holds the lock; after a wait the value is computed again from
\* the row as committed.
refill_stock_stmt(w) ==
  /\ tx[w].pc = "refill_stmt"
  /\ LET id == tx[w].id IN
       IF id \in DOMAIN fuel_types
       THEN IF ~numeric_fits(stock_sum(fuel_types[id], tx[w]))
            THEN Rollback(w, "DataError")
            ELSE IF Locked(id, w)
                 THEN /\ tx' = [tx EXCEPT ![w].pc = "refill_wait",
                                          ![w].snap_row = {fuel_types[id]}]
                      /\ UNCHANGED <<db, fuel_types_id_seq, clock, calls, log>>
                 ELSE refill_stock_update(w, fuel_types[id])
       ELSE Rollback(w, "NotFound")

refill_stock_resume(w) ==
  /\ tx[w].pc = "refill_wait"
  /\ ~Locked(tx[w].id, w)
  /\ refill_stock_update(w, locked_row(w, tx[w].id))

\* ------------------------------------------------------------------ create_fuel_type

Call_create_fuel_type(w) ==
  /\ MayCall(w)
  /\ \E args \in CreateInputs :
       LET name == args[1]
           price == to_decimal(args[2])
           stock == to_decimal(args[3])
           t == [Idle EXCEPT !.op = "create_fuel_type", !.name = strip(name),
                             !.price = price, !.litres = stock,
                             !.pc = "create_check"]
       IN IF price < 0 \/ stock < 0 THEN Reject(w, t) ELSE Begin(w, t)

\* SELECT id FROM fuel_types WHERE name = :name; if exists: raise ConflictError
name_exists(name) == \E i \in DOMAIN fuel_types : fuel_types[i].name = name

create_check(w) ==
  /\ tx[w].pc = "create_check"
  /\ IF name_exists(tx[w].name)
     THEN Rollback(w, "Conflict")
     ELSE /\ tx' = [tx EXCEPT ![w].pc = "create_insert"]
          /\ UNCHANGED <<db, fuel_types_id_seq, clock, calls, log>>

create_row(t, id) ==
  [name |-> t.name, price_per_litre |-> t.price, stock_litres |-> t.litres,
   stock_e9 |-> t.litres_e9, created_at |-> t.now, updated_at |-> t.now]

\* The unique index on fuel_types.name rejects the insert: IntegrityError, which
\* is none of the domain errors.
unique_violation(w, t) ==
  /\ log' = Append(log, Entry(t, w, "Internal"))
  /\ tx' = [tx EXCEPT ![w] = Idle]
  /\ clock' = clock + 1
  /\ UNCHANGED calls

\* INSERT INTO fuel_types (name, price_per_litre, stock_litres) ... RETURNING ...
\* The id is drawn from the sequence before the unique index is consulted.
create_insert(w) ==
  /\ tx[w].pc = "create_insert"
  /\ LET id == fuel_types_id_seq + 1
         t == [tx[w] EXCEPT !.id = id]
     IN /\ fuel_types_id_seq' = id
        /\ IF t.name \in CommittedNames
           THEN unique_violation(w, t)
           ELSE /\ IF t.name \in PendingNames(w)
                   THEN tx' = [tx EXCEPT ![w] = [t EXCEPT !.pc = "create_wait"]]
                   ELSE tx' = [tx EXCEPT ![w] =
                                 [t EXCEPT !.pc = "create_history",
                                           !.w_ft = (id :> create_row(t, id))]]
                /\ UNCHANGED <<clock, calls, log>>
  /\ UNCHANGED db

\* The insert waited for an uncommitted row of the same name; that transaction
\* has ended.
create_insert_resume(w) ==
  /\ tx[w].pc = "create_wait"
  /\ tx[w].name \notin PendingNames(w)
  /\ IF tx[w].name \in CommittedNames
     THEN unique_violation(w, tx[w])
     ELSE /\ tx' = [tx EXCEPT ![w].pc = "create_history",
                              ![w].w_ft = (tx[w].id :> create_row(tx[w], tx[w].id))]
          /\ UNCHANGED <<clock, calls, log>>
  /\ UNCHANGED <<db, fuel_types_id_seq>>

\* Variant: the initial history segment is not written.
create_history_omitted(w) ==
  /\ tx[w].pc = "create_history"
  /\ tx' = [tx EXCEPT
              ![w].pc = "commit",
              ![w].ret = [NoRet EXCEPT !.stock = tx[w].litres,
                                       !.price = tx[w].price,
                                       !.at = tx[w].now]]
  /\ UNCHANGED <<db, fuel_types_id_seq, clock, calls, log>>

\* INSERT INTO fuel_price_history (fuel_type_id, price_per_litre, valid_from)
\* VALUES (:id, :price, NOW())
create_history(w) ==
  /\ tx[w].pc = "create_history"
  /\ tx' = [tx EXCEPT
              ![w].pc = "commit",
              ![w].w_hist = << [fuel_type_id |-> tx[w].id,
                                price_per_litre |-> tx[w].price,
                                valid_from |-> tx[w].now, valid_to |-> {}] >>,
              ![w].ret = [NoRet EXCEPT !.stock = tx[w].litres,
                                       !.price = tx[w].price,
                                       !.at = tx[w].now]]
  /\ UNCHANGED <<db, fuel_types_id_seq, clock, calls, log>>

\* The insert of the initial segment raises (the store fails the statement):
\* the exception leaves create_fuel_type and session_scope rolls back.
create_history_error(w) ==
  /\ tx[w].pc = "create_history"
  /\ Rollback(w, "StoreFailure")

\* ------------------------------------------------------------------ update_price

Call_update_price(w) ==
  /\ MayCall(w)
  /\ \E id \in IdInputs, new_price \in PriceInputs :
       LET t == [Idle EXCEPT !.op = "update_price", !.id = id,
                             !.price = new_price, !.pc = "price_close"]
       IN IF new_price < 0 THEN Reject(w, t) ELSE Begin(w, t)

OpenSegs(id) ==
  { i \in 1..Len(fuel_price_history) :
      /\ fuel_price_history[i].fuel_type_id = id
      /\ fuel_price_history[i].valid_to = {} }

\* UPDATE fuel_price_history SET valid_to = NOW()
\*  WHERE fuel_type_id = :id AND valid_to IS NULL
update_price_close(w) ==
  /\ tx[w].pc = "price_close"
  /\ LET targets == OpenSegs(tx[w].id) IN
       IF \E i \in targets : SegLocked(i, w)
       THEN tx' = [tx EXCEPT ![w].pc = "price_close_wait",
                             ![w].snap_segs = targets]
       ELSE tx' = [tx EXCEPT ![w].pc = "price_update", ![w].w_close = targets]
  /\ UNCHANGED <<db, fuel_types_id_seq, clock, calls, log>>

\* Variant: the rows of the statement's snapshot are closed without looking at
\* them again once their locks are free.
still_open_unchecked(segs) == segs
\* The rows of the statement's snapshot that still satisfy its WHERE clause
\* once their locks are free.
still_open(segs) == { i \in segs : fuel_price_history[i].valid_to = {} }

update_price_close_resume(w) ==
  /\ tx[w].pc = "price_close_wait"
  /\ \A i \in tx[w].snap_segs : ~SegLocked(i, w)
  /\ tx' = [tx EXCEPT ![w].pc = "price_update", ![w].snap_segs = {},
                      ![w].w_close = still_open(tx[w].snap_segs)]
  /\ UNCHANGED <<db, fuel_types_id_seq, clock, calls, log>>

\* Variant: the live price column is left as it was; only history records the
\* new price.
price_apply_history_only(t, row) ==
  [t EXCEPT
     !.pc = "price_insert",
     !.snap_row = {},
     !.w_ft = (t.id :> [row EXCEPT !.updated_at = t.now]),
     !.ret = [NoRet EXCEPT !.price = t.price, !.at = t.now]]

\* Variant: the price update has no WHERE id = :id, so it sets the price of
\* every fuel type.
price_apply_all_rows(t, row) ==
  [t EXCEPT
     !.pc = "price_insert",
     !.snap_row = {},
     !.w_ft = [k \in DOMAIN fuel_types |->
                 [fuel_types[k] EXCEPT !.price_per_litre = t.price,
                                       !.updated_at = t.now]],
     !.ret = [NoRet EXCEPT !.price = t.price, !.at = t.now]]

price_apply(t, row) ==
  [t EXCEPT
     !.pc = "price_insert",
     !.snap_row = {},
     !.w_ft = (t.id :> [row EXCEPT !.price_per_litre = t.price,
                                   !.updated_at = t.now]),
     !.ret = [NoRet EXCEPT !.price = t.price, !.at = t.now]]

\* Variant: the result of the update is not looked at, so a missing row does
\* not end the call and the new segment is inserted all the same.
update_price_update_unchecked(w) ==
  /\ tx[w].pc = "price_update"
  /\ LET id == tx[w].id IN
       IF id \in DOMAIN fuel_types
       THEN IF Locked(id, w)
            THEN tx' = [tx EXCEPT ![w].pc = "price_update_wait",
                                  ![w].snap_row = {fuel_types[id]}]
            ELSE tx' = [tx EXCEPT ![w] = price_apply(@, fuel_types[id])]
       ELSE tx' = [tx EXCEPT ![w].pc = "price_insert"]
  /\ UNCHANGED <<db, fuel_types_id_seq, clock, calls, log>>

\* UPDATE fuel_types SET price_per_litre = :price, updated_at = NOW()
\*  WHERE id = :id RETURNING ...; if not row: raise NotFoundError
update_price_update(w) ==
  /\ tx[w].pc = "price_update"
  /\ LET id == tx[w].id IN
       IF id \in DOMAIN fuel_types
       THEN /\ IF Locked(id, w)
               THEN tx' = [tx EXCEPT ![w].pc = "price_update_wait",
                                     ![w].snap_row = {fuel_types[id]}]
               ELSE tx' = [tx EXCEPT ![w] = price_apply(@, fuel_types[id])]
            /\ UNCHANGED <<db, fuel_types_id_seq, clock, calls, log>>
       ELSE Rollback(w, "NotFound")

update_price_update_resume(w) ==
  /\ tx[w].pc = "price_update_wait"
  /\ ~Locked(tx[w].id, w)
  /\ tx' = [tx EXCEPT ![w] = price_apply(@, locked_row(w, tx[w].id))]
  /\ UNCHANGED <<db, fuel_types_id_seq, clock, calls, log>>

\* Variant: a price change to the price the fuel type already has opens no
\* new segment.
update_price_insert_if_changed(w) ==
  /\ tx[w].pc = "price_insert"
  /\ tx' = [tx EXCEPT
              ![w].pc = "commit",
              ![w].w_hist =
                IF \E i \in tx[w].w_close :
                     fuel_price_history[i].price_per_litre = tx[w].price
                THEN <<>>
                ELSE << [fuel_type_id |-> tx[w].id, price_per_litre |-> tx[w].price,
                         valid_from |-> tx[w].now, valid_to |-> {}] >>]
  /\ UNCHANGED <<db, fuel_types_id_seq, clock, calls, log>>

\* INSERT INTO fuel_price_history (fuel_type_id, price_per_litre)
\* VALUES (:id, :price)      -- valid_from defaults to now(), valid_to to NULL
update_price_insert(w) ==
  /\ tx[w].pc = "price_insert"
  /\ tx' = [tx EXCEPT
              ![w].pc = "commit",
              ![w].w_hist = << [fuel_type_id |-> tx[w].id,
                                price_per_litre |-> tx[w].price,
                                valid_from |-> tx[w].now, valid_to |-> {}] >>]
  /\ UNCHANGED <<db, fuel_types_id_seq, clock, calls, log>>

\* ------------------------------------------------------------------ reads

\* SELECT id AS fuel_type_id, name, stock_litres FROM fuel_types ORDER BY id
list_inventory ==
  [id \in DOMAIN fuel_types |->
     [fuel_type_id |-> id, name |-> fuel_types[id].name,
      stock_litres |-> fuel_types[id].stock_litres,
      stock_e9 |-> fuel_types[id].stock_e9]]

ReadOps ==
  { "list_fuel_types", "list_inventory", "list_sales", "sales_overview",
    "sales_timeseries", "sales_by_fuel_type", "price_history" }

\* Optional datetimes of a query: the empty set is a parameter that was not
\* given, so that "if start:" is a quantification over the set.
TimeInputs == { {}, {4} }
\* The optional fuel_type_id of a query; 0 stands for one that was not given
\* (None and 0 both fail "if fuel_type_id:").
ReadIdInputs == { 0, 1 }
GranularityInputs == { "week", "hour" }
\* Ticks of the clock in a day.
TicksPerDay == 2

\* _GRANULARITIES.get(granularity, "day")
granularity_of(g) == IF g \in {"day", "week", "month"} THEN g ELSE "day"

\* date_trunc(gran, t), time 0 being the start of a day, a week and a month,
\* and a month having 30 days.
date_trunc(gran, t) ==
  LET width == CASE gran = "week" -> 7 * TicksPerDay
                 [] gran = "month" -> 30 * TicksPerDay
                 [] OTHER -> TicksPerDay
  IN t - (t % width)

\* str() of a Decimal of three and of two decimal places: the digits before
\* and after the point.
str3(v) == << v \div 1000, v % 1000 >>
str2(v) == << v \div 100, v % 100 >>
\* The quotient of two aggregates, before it is rendered.
ratio(n, d) == << n, d >>

RECURSIVE SumOf(_, _)
SumOf(f, S) ==
  IF S = {} THEN 0 ELSE LET x == CHOOSE y \in S : TRUE IN f[x] + SumOf(f, S \ {x})

\* The sequences that list S in ascending (descending) order of key, one for
\* each order the ties allow.
Perms(S) ==
  { f \in [1..Cardinality(S) -> S] : \A i, j \in 1..Cardinality(S) : i # j => f[i] # f[j] }
order_by(S, key) ==
  { f \in Perms(S) : \A i, j \in DOMAIN f : i < j => key[f[i]] <= key[f[j]] }
order_by_desc(S, key) ==
  { f \in Perms(S) : \A i, j \in DOMAIN f : i < j => key[f[i]] >= key[f[j]] }

\* The columns of the committed sales, and the rows a WHERE clause built from
\* (start, end, fuel_type_id) selects.
Amount == [n \in 1..Len(sales) |-> sales[n].amount]
Litres == [n \in 1..Len(sales) |-> sales[n].litres]
PriceAtSale == [n \in 1..Len(sales) |-> sales[n].price_at_sale]
SoldAt == [n \in 1..Len(sales) |-> sales[n].sold_at]
sales_filter(start, end, ftid) ==
  { n \in 1..Len(sales) :
      /\ \A s \in start : sales[n].sold_at >= s
      /\ \A e \in end : sales[n].sold_at <= e
      /\ ftid # 0 => sales[n].fuel_type_id = ftid }
earliest(T) == { t \in T : \A u \in T : t <= u }
latest(T) == { t \in T : \A u \in T : t >= u }

\* SELECT id, name, price_per_litre FROM fuel_types ORDER BY id
list_fuel_types ==
  [id \in DOMAIN fuel_types |->
     [id |-> id, name |-> fuel_types[id].name,
      price_per_litre |-> fuel_types[id].price_per_litre]]

\* SELECT ... FROM sales {where} ORDER BY sold_at DESC  (the rows of the model
\* carry no id column)
list_sales(start, end, ftid) ==
  { [k \in DOMAIN f |-> sales[f[k]]] :
      f \in order_by_desc(sales_filter(start, end, ftid), SoldAt) }

\* sales_overview, first statement: totals and weighted average.
sales_overview_q(S) ==
  [revenue |-> SumOf(Amount, S), litres |-> SumOf(Litres, S),
   tx_count |-> Cardinality(S),
   weighted_avg_price |->
     IF SumOf(Litres, S) > 0
     THEN ratio(SumOf([n \in 1..Len(sales) |-> sales[n].price_at_sale * sales[n].litres], S),
                SumOf(Litres, S))
     ELSE ratio(0, 1),
   first_sale_at |-> earliest({ sales[n].sold_at : n \in S }),
   last_sale_at |-> latest({ sales[n].sold_at : n \in S })]

\* SELECT date_trunc('day', sold_at) AS d, SUM(amount) AS rev ... GROUP BY d
day_revenue(S) ==
  [d \in { date_trunc("day", sales[n].sold_at) : n \in S } |->
     SumOf(Amount, { n \in S : date_trunc("day", sales[n].sold_at) = d })]

\* ... ORDER BY rev DESC LIMIT 1 and ... ORDER BY rev ASC LIMIT 1: the rows the
\* statement may return, none when there is no group.
sales_overview_q2(S) ==
  LET rev == day_revenue(S) IN
    IF DOMAIN rev = {} THEN { {} }
    ELSE { { [date |-> d, revenue |-> str2(rev[d])] } :
             d \in { x \in DOMAIN rev : \A y \in DOMAIN rev : rev[x] >= rev[y] } }
sales_overview_q3(S) ==
  LET rev == day_revenue(S) IN
    IF DOMAIN rev = {} THEN { {} }
    ELSE { { [date |-> d, revenue |-> str2(rev[d])] } :
             d \in { x \in DOMAIN rev : \A y \in DOMAIN rev : rev[x] <= rev[y] } }

\* The dictionary sales_overview returns.
sales_overview(o, peak, low) ==
  [total_revenue |-> str2(o.revenue), total_litres |-> str3(o.litres),
   tx_count |-> o.tx_count,
   avg_ticket |-> IF o.tx_count # 0 THEN ratio(o.revenue, o.tx_count) ELSE ratio(0, 1),
   weighted_avg_price |-> o.weighted_avg_price,
   first_sale_at |-> o.first_sale_at, last_sale_at |-> o.last_sale_at,
   peak_day |-> peak, low_day |-> low]

\* SELECT date_trunc(gran, sold_at) AS bucket, SUM, SUM, COUNT, AVG
\*   FROM sales {where} GROUP BY bucket ORDER BY bucket
sales_timeseries(start, end, ftid, granularity) ==
  LET gran == granularity_of(granularity)
      S == sales_filter(start, end, ftid)
      buckets == { date_trunc(gran, sales[n].sold_at) : n \in S }
      In(b) == { n \in S : date_trunc(gran, sales[n].sold_at) = b }
  IN { [k \in DOMAIN f |->
          [period_start |-> f[k], revenue |-> str2(SumOf(Amount, In(f[k]))),
           litres |-> str3(SumOf(Litres, In(f[k]))),
           tx_count |-> Cardinality(In(f[k])),
           avg_price |-> ratio(SumOf(PriceAtSale, In(f[k])), Cardinality(In(f[k])))]] :
        f \in order_by(buckets, [b \in buckets |-> b]) }

\* SELECT s.fuel_type_id, ft.name, SUM, SUM, COUNT, AVG FROM sales s
\*   JOIN fuel_types ft ON ft.id = s.fuel_type_id {where}
\*  GROUP BY s.fuel_type_id, ft.name ORDER BY revenue DESC
sales_by_fuel_type(start, end) ==
  LET S == { n \in sales_filter(start, end, 0) : sales[n].fuel_type_id \in DOMAIN fuel_types }
      ids == { sales[n].fuel_type_id : n \in S }
      Of(id) == { n \in S : sales[n].fuel_type_id = id }
  IN { [k \in DOMAIN f |->
          [fuel_type_id |-> f[k], name |-> fuel_types[f[k]].name,
           revenue |-> str2(SumOf(Amount, Of(f[k]))),
           litres |-> str3(SumOf(Litres, Of(f[k]))),
           tx_count |-> Cardinality(Of(f[k])),
           avg_price |-> ratio(SumOf(PriceAtSale, Of(f[k])), Cardinality(Of(f[k])))]] :
        f \in order_by_desc(ids, [id \in ids |-> SumOf(Amount, Of(id))]) }

\* Variant: a segment that ends at the start of the range, or starts at its
\* end, is left out.
price_history_where_strict(id, start, end) ==
  { i \in 1..Len(fuel_price_history) :
      /\ fuel_price_history[i].fuel_type_id = id
      /\ \A s \in start : \/ fuel_price_history[i].valid_to = {}
                          \/ \A v \in fuel_price_history[i].valid_to : v > s
      /\ \A e \in end : fuel_price_history[i].valid_from < e }

\* fuel_type_id = :ftid [AND (valid_to IS NULL OR valid_to >= :start)]
\*                      [AND valid_from <= :end]
price_history_where(id, start, end) ==
  { i \in 1..Len(fuel_price_history) :
      /\ fuel_price_history[i].fuel_type_id = id
      /\ \A s \in start : \/ fuel_price_history[i].valid_to = {}
                          \/ \A v \in fuel_price_history[i].valid_to : v >= s
      /\ \A e \in end : fuel_price_history[i].valid_from <= e }

\* The dictionary price_history returns for segment i.
price_history_row(i) ==
  [price_per_litre |-> str3(fuel_price_history[i].price_per_litre),
   valid_from |-> fuel_price_history[i].valid_from,
   valid_to |-> fuel_price_history[i].valid_to]

\* SELECT price_per_litre, valid_from, valid_to FROM fuel_price_history
\*  {where} ORDER BY valid_from
price_history(id, start, end) ==
  { [k \in DOMAIN f |-> price_history_row(f[k])] :
      f \in order_by(price_history_where(id, start, end),
                     [i \in 1..Len(fuel_price_history) |-> fuel_price_history[i].valid_from]) }

\* Variant: the read stamps the rows of fuel_types it has looked at.
read_session_touching(t) ==
  [t EXCEPT !.w_ft = [i \in DOMAIN fuel_types |->
                        [fuel_types[i] EXCEPT !.updated_at = clock]]]

\* The session of a read once its SELECT has returned: t with the rows the
\* session has written, which are none.
read_session(t) ==
  [t EXCEPT !.w_ft = <<>>, !.w_close = {}, !.w_hist = <<>>, !.w_sale = <<>>]

Call_list_fuel_types(w) ==
  /\ tx[w].pc = "idle"
  /\ tx' = [tx EXCEPT ![w] =
              read_session([Idle EXCEPT !.op = "list_fuel_types", !.pc = "read_done",
                                        !.result = list_fuel_types])]
  /\ UNCHANGED <<db, fuel_types_id_seq, clock, calls, log>>

Call_list_inventory(w) ==
  /\ tx[w].pc = "idle"
  /\ tx' = [tx EXCEPT ![w] =
              read_session([Idle EXCEPT !.op = "list_inventory", !.pc = "read_done",
                                        !.result = list_inventory])]
  /\ UNCHANGED <<db, fuel_types_id_seq, clock, calls, log>>

Call_list_sales(w) ==
  /\ tx[w].pc = "idle"
  /\ \E start, end \in TimeInputs, ftid \in ReadIdInputs :
       \E rows \in list_sales(start, end, ftid) :
         tx' = [tx EXCEPT ![w] =
                  read_session([Idle EXCEPT !.op = "list_sales", !.pc = "read_done",
                                            !.id = ftid, !.start = start, !.end = end,
                                            !.result = rows])]
  /\ UNCHANGED <<db, fuel_types_id_seq, clock, calls, log>>

Call_sales_overview(w) ==
  /\ tx[w].pc = "idle"
  /\ \E start, end \in TimeInputs, ftid \in ReadIdInputs :
       tx' = [tx EXCEPT ![w] =
                read_session(
                  [Idle EXCEPT !.op = "sales_overview", !.pc = "overview_q2",
                               !.id = ftid, !.start = start, !.end = end,
                               !.result =
                                 << sales_overview_q(sales_filter(start, end, ftid)) >>])]
  /\ UNCHANGED <<db, fuel_types_id_seq, clock, calls, log>>

Step_sales_overview_q2(w) ==
  /\ tx[w].pc = "overview_q2"
  /\ \E peak \in sales_overview_q2(sales_filter(tx[w].start, tx[w].end, tx[w].id)) :
       tx' = [tx EXCEPT ![w].pc = "overview_q3",
                        ![w].result = << @[1], [peak_day |-> peak] >>]
  /\ UNCHANGED <<db, fuel_types_id_seq, clock, calls, log>>

Step_sales_overview_q3(w) ==
  /\ tx[w].pc = "overview_q3"
  /\ \E low \in sales_overview_q3(sales_filter(tx[w].start, tx[w].end, tx[w].id)) :
       tx' = [tx EXCEPT ![w].pc = "read_done",
                        ![w].result = << sales_overview(@[1], @[2].peak_day, low) >>]
  /\ UNCHANGED <<db, fuel_types_id_seq, clock, calls, log>>

Call_sales_timeseries(w) ==
  /\ tx[w].pc = "idle"
  /\ \E start, end \in TimeInputs, ftid \in ReadIdInputs, g \in GranularityInputs :
       \E rows \in sales_timeseries(start, end, ftid, g) :
         tx' = [tx EXCEPT ![w] =
                  read_session([Idle EXCEPT !.op = "sales_timeseries", !.pc = "read_done",
                                            !.id = ftid, !.start = start, !.end = end,
                                            !.granularity = g, !.result = rows])]
  /\ UNCHANGED <<db, fuel_types_id_seq, clock, calls, log>>

Call_sales_by_fuel_type(w) ==
  /\ tx[w].pc = "idle"
  /\ \E start, end \in TimeInputs :
       \E rows \in sales_by_fuel_type(start, end) :
         tx' = [tx EXCEPT ![w] =
                  read_session([Idle EXCEPT !.op = "sales_by_fuel_type",
                                            !.pc = "read_done", !.start = start,
                                            !.end = end, !.result = rows])]
  /\ UNCHANGED <<db, fuel_types_id_seq, clock, calls, log>>

Call_price_history(w) ==
  /\ tx[w].pc = "idle"
  /\ \E id \in IdInputs, start, end \in TimeInputs :
       \E rows \in price_history(id, start, end) :
         tx' = [tx EXCEPT ![w] =
                  read_session([Idle EXCEPT !.op = "price_history", !.pc = "read_done",
                                            !.id = id, !.start = start, !.end = end,
                                            !.result = rows])]
  /\ UNCHANGED <<db, fuel_types_id_seq, clock, calls, log>>

\* session_scope of a read: the commit of a session, which makes visible what
\* the session wrote.
Return_read(w) ==
  /\ tx[w].pc = "read_done"
  /\ fuel_types' = tx[w].w_ft @@ fuel_types
  /\ fuel_price_history' =
       [i \in 1..Len(fuel_price_history) |->
          IF i \in tx[w].w_close
          THEN CloseSeg(fuel_price_history[i], tx[w].now)
          ELSE fuel_price_history[i]] \o tx[w].w_hist
  /\ sales' = sales \o tx[w].w_sale
  /\ tx' = [tx EXCEPT ![w] = Idle]
  /\ UNCHANGED <<fuel_types_id_seq, clock, calls, log>>

\* ------------------------------------------------------------------ boundary

\* The exception a call ends with, by class and text (str(e)). A text is a
\* sequence of pieces: the name of a duplicate create is part of its text.
create_fuel_type_raises(e) ==
  CASE e.outcome = "Validation" ->
         [class |-> "ValidationError", text |-> <<"price/stock must be >= 0">>]
    [] e.outcome = "Conflict" ->
         [class |-> "ConflictError",
          text |-> <<"Fuel type \"">> \o e.name \o <<"\" already exists">>]

update_price_raises(e) ==
  CASE e.outcome = "Validation" ->
         [class |-> "ValidationError", text |-> <<"price must be >= 0">>]
    [] e.outcome = "NotFound" ->
         [class |-> "NotFoundError", text |-> <<"fuel type not found">>]

refill_stock_raises(e) ==
  CASE e.outcome = "Validation" ->
         [class |-> "ValidationError", text |-> <<"litres must be > 0">>]
    [] e.outcome = "NotFound" ->
         [class |-> "NotFoundError", text |-> <<"fuel type not found">>]

record_sale_raises(e) ==
  CASE e.outcome = "Validation" ->
         [class |-> "ValidationError", text |-> <<"litres must be > 0">>]
    [] e.outcome = "NotFound" ->
         [class |-> "NotFoundError", text |-> <<"fuel type not found">>]
    [] e.outcome = "InsufficientStock" ->
         [class |-> "InsufficientStockError", text |-> <<"insufficient stock">>]

DomainOutcomes == {"Validation", "NotFound", "Conflict", "InsufficientStock"}

\* The exception that leaves session_scope for the finished call e: the one the
\* operation raised, or the one of the statement that failed in the store (an
\* error of the database layer, which carries an attribute code of its own).
Raised(e) ==
  CASE e.outcome \in DomainOutcomes /\ e.op = "create_fuel_type" ->
         create_fuel_type_raises(e)
    [] e.outcome \in DomainOutcomes /\ e.op = "update_price" -> update_price_raises(e)
    [] e.outcome \in DomainOutcomes /\ e.op = "refill_stock" -> refill_stock_raises(e)
    [] e.outcome \in DomainOutcomes /\ e.op = "record_sale" -> record_sale_raises(e)
    [] e.outcome = "Internal" ->
         [class |-> "IntegrityError", code |-> "gkpj", text |-> <<"UniqueViolation">>]
    [] e.outcome = "DataError" ->
         [class |-> "DataError", code |-> "9h9h", text |-> <<"numeric field overflow">>]
    [] OTHER -> [class |-> "OperationalError", code |-> "e3q8", text |-> <<"statement failed">>]

\* The HTTP exceptions of the framework, by class: the status code and the
\* description an instance has unless it is given its own. Routing raises
\* NotFound for an unknown URL and MethodNotAllowed for a known URL with another
\* method; get_json(force=True) raises BadRequest for a body that is not JSON,
\* with a description of the decoding error when the application runs in debug mode.
HTTPException ==
  [BadRequest |->
     [code |-> 400,
      description |-> <<"The browser (or proxy) sent a request that this server could not understand.">>],
   Unauthorized |->
     [code |-> 401,
      description |-> <<"The server could not verify that you are authorized to access the URL requested. You either supplied the wrong credentials (e.g. a bad password), or your browser doesn't understand how to supply the credentials required.">>],
   Forbidden |->
     [code |-> 403,
      description |-> <<"You don't have the permission to access the requested resource. It is either read-protected or not readable by the server.">>],
   NotFound |->
     [code |-> 404,
      description |-> <<"The requested URL was not found on the server. If you entered the URL manually please check your spelling and try again.">>],
   MethodNotAllowed |->
     [code |-> 405,
      description |-> <<"The method is not allowed for the requested URL.">>],
   NotAcceptable |->
     [code |-> 406,
      description |-> <<"The resource identified by the request is only capable of generating response entities which have content characteristics not acceptable according to the accept headers sent in the request.">>],
   RequestTimeout |->
     [code |-> 408,
      description |-> <<"The server closed the network connection because the browser didn't finish the request within the specified time.">>],
   Conflict |->
     [code |-> 409,
      description |-> <<"A conflict happened while processing the request. The resource might have been modified while the request was being processed.">>],
   Gone |->
     [code |-> 410,
      description |-> <<"The requested URL is no longer available on this server and there is no forwarding address. If you followed a link from a foreign page, please contact the author of this page.">>],
   LengthRequired |->
     [code |-> 411,
      description |-> <<"A request with this method requires a valid <code>Content-Length</code> header.">>],
   PreconditionFailed |->
     [code |-> 412,
      description |-> <<"The precondition on the request for the URL failed positive evaluation.">>],
   RequestEntityTooLarge |->
     [code |-> 413,
      description |-> <<"The data value transmitted exceeds the capacity limit.">>],
   RequestURITooLarge |->
     [code |-> 414,
      description |-> <<"The length of the requested URL exceeds the capacity limit for this server. The request cannot be processed.">>],
   UnsupportedMediaType |->
     [code |-> 415,
      description |-> <<"The server does not support the media type transmitted in the request.">>],
   RequestedRangeNotSatisfiable |->
     [code |-> 416,
      description |-> <<"The server cannot provide the requested range.">>],
   ExpectationFailed |->
     [code |-> 417,
      description |-> <<"The server could not meet the requirements of the Expect header">>],
   ImATeapot |->
     [code |-> 418,
      description |-> <<"This server is a teapot, not a coffee machine">>],
   UnprocessableEntity |->
     [code |-> 422,
      description |-> <<"The request was well-formed but was unable to be followed due to semantic errors.">>],
   Locked |->
     [code |-> 423,
      description |-> <<"The resource that is being accessed is locked.">>],
   FailedDependency |->
     [code |-> 424,
      description |-> <<"The method could not be performed on the resource because the requested action depended on another action and that action failed.">>],
   PreconditionRequired |->
     [code |-> 428,
      description |-> <<"This request is required to be conditional; try using \"If-Match\" or \"If-Unmodified-Since\".">>],
   TooManyRequests |->
     [code |-> 429,
      description |-> <<"This user has exceeded an allotted request count. Try again later.">>],
   RequestHeaderFieldsTooLarge |->
     [code |-> 431,
      description |-> <<"One or more header fields exceeds the maximum size.">>],
   UnavailableForLegalReasons |->
     [code |-> 451,
      description |-> <<"Unavailable for legal reasons.">>],
   InternalServerError |->
     [code |-> 500,
      description |-> <<"The server encountered an internal error and was unable to complete your request. Either the server is overloaded or there is an error in the application.">>],
   NotImplemented |->
     [code |-> 501,
      description |-> <<"The server does not support the action requested by the browser.">>],
   BadGateway |->
     [code |-> 502,
      description |-> <<"The proxy server received an invalid response from an upstream server.">>],
   ServiceUnavailable |->
     [code |-> 503,
      description |-> <<"The server is temporarily unable to service your request due to maintenance downtime or capacity problems. Please try again later.">>],
   GatewayTimeout |->
     [code |-> 504,
      description |-> <<"The connection to an upstream server timed out.">>],
   HTTPVersionNotSupported |->
     [code |-> 505,
      description |-> <<"The server does not support the HTTP protocol version used in the request.">>]]

\* The reason phrase of a status code (e.name of an HTTP exception).
HTTP_STATUS_CODES(code) ==
  CASE code = 400 -> "Bad Request"
    [] code = 401 -> "Unauthorized"
    [] code = 402 -> "Payment Required"
    [] code = 403 -> "Forbidden"
    [] code = 404 -> "Not Found"
    [] code = 405 -> "Method Not Allowed"
    [] code = 406 -> "Not Acceptable"
    [] code = 407 -> "Proxy Authentication Required"
    [] code = 408 -> "Request Timeout"
    [] code = 409 -> "Conflict"
    [] code = 410 -> "Gone"
    [] code = 411 -> "Length Required"
    [] code = 412 -> "Precondition Failed"
    [] code = 413 -> "Request Entity Too Large"
    [] code = 414 -> "Request URI Too Long"
    [] code = 415 -> "Unsupported Media Type"
    [] code = 416 -> "Requested Range Not Satisfiable"
    [] code = 417 -> "Expectation Failed"
    [] code = 418 -> "I'm a teapot"
    [] code = 421 -> "Misdirected Request"
    [] code = 422 -> "Unprocessable Entity"
    [] code = 423 -> "Locked"
    [] code = 424 -> "Failed Dependency"
    [] code = 425 -> "Too Early"
    [] code = 426 -> "Upgrade Required"
    [] code = 428 -> "Precondition Required"
    [] code = 429 -> "Too Many Requests"
    [] code = 431 -> "Request Header Fields Too Large"
    [] code = 449 -> "Retry With"
    [] code = 451 -> "Unavailable For Legal Reasons"
    [] code = 500 -> "Internal Server Error"
    [] code = 501 -> "Not Implemented"
    [] code = 502 -> "Bad Gateway"
    [] code = 503 -> "Service Unavailable"
    [] code = 504 -> "Gateway Timeout"
    [] code = 505 -> "HTTP Version Not Supported"
    [] code = 506 -> "Variant Also Negotiates"
    [] code = 507 -> "Insufficient Storage"
    [] code = 508 -> "Loop Detected"
    [] code = 510 -> "Not Extended"
    [] code = 511 -> "Network Authentication Failed"
    [] OTHER -> "Unknown Error"

\* e.name.replace(" ", "_").upper()
upper_snake(name) ==
  CASE name = "Bad Request" -> "BAD_REQUEST"
    [] name = "Unauthorized" -> "UNAUTHORIZED"
    [] name = "Payment Required" -> "PAYMENT_REQUIRED"
    [] name = "Forbidden" -> "FORBIDDEN"
    [] name = "Not Found" -> "NOT_FOUND"
    [] name = "Method Not Allowed" -> "METHOD_NOT_ALLOWED"
    [] name = "Not Acceptable" -> "NOT_ACCEPTABLE"
    [] name = "Proxy Authentication Required" -> "PROXY_AUTHENTICATION_REQUIRED"
    [] name = "Request Timeout" -> "REQUEST_TIMEOUT"
    [] name = "Conflict" -> "CONFLICT"
    [] name = "Gone" -> "GONE"
    [] name = "Length Required" -> "LENGTH_REQUIRED"
    [] name = "Precondition Failed" -> "PRECONDITION_FAILED"
    [] name = "Request Entity Too Large" -> "REQUEST_ENTITY_TOO_LARGE"
    [] name = "Request URI Too Long" -> "REQUEST_URI_TOO_LONG"
    [] name = "Unsupported Media Type" -> "UNSUPPORTED_MEDIA_TYPE"
    [] name = "Requested Range Not Satisfiable" -> "REQUESTED_RANGE_NOT_SATISFIABLE"
    [] name = "Expectation Failed" -> "EXPECTATION_FAILED"
    [] name = "I'm a teapot" -> "I'M_A_TEAPOT"
    [] name = "Misdirected Request" -> "MISDIRECTED_REQUEST"
    [] name = "Unprocessable Entity" -> "UNPROCESSABLE_ENTITY"
    [] name = "Locked" -> "LOCKED"
    [] name = "Failed Dependency" -> "FAILED_DEPENDENCY"
    [] name = "Too Early" -> "TOO_EARLY"
    [] name = "Upgrade Required" -> "UPGRADE_REQUIRED"
    [] name = "Precondition Required" -> "PRECONDITION_REQUIRED"
    [] name = "Too Many Requests" -> "TOO_MANY_REQUESTS"
    [] name = "Request Header Fields Too Large" -> "REQUEST_HEADER_FIELDS_TOO_LARGE"
    [] name = "Retry With" -> "RETRY_WITH"
    [] name = "Unavailable For Legal Reasons" -> "UNAVAILABLE_FOR_LEGAL_REASONS"
    [] name = "Internal Server Error" -> "INTERNAL_SERVER_ERROR"
    [] name = "Not Implemented" -> "NOT_IMPLEMENTED"
    [] name = "Bad Gateway" -> "BAD_GATEWAY"
    [] name = "Service Unavailable" -> "SERVICE_UNAVAILABLE"
    [] name = "Gateway Timeout" -> "GATEWAY_TIMEOUT"
    [] name = "HTTP Version Not Supported" -> "HTTP_VERSION_NOT_SUPPORTED"
    [] name = "Variant Also Negotiates" -> "VARIANT_ALSO_NEGOTIATES"
    [] name = "Insufficient Storage" -> "INSUFFICIENT_STORAGE"
    [] name = "Loop Detected" -> "LOOP_DETECTED"
    [] name = "Not Extended" -> "NOT_EXTENDED"
    [] name = "Network Authentication Failed" -> "NETWORK_AUTHENTICATION_FAILED"
    [] name = "Unknown Error" -> "UNKNOWN_ERROR"

error_body(code, message) == [error |-> [code |-> code, message |-> message]]

\* The classes of an exception of class c, most derived first (its __mro__).
StoreErrors == {"IntegrityError", "DataError", "OperationalError"}
mro(c) ==
  CASE c \in DOMAIN HTTPException -> <<c, "HTTPException", "Exception">>
    [] c \in StoreErrors ->
         <<c, "DatabaseError", "DBAPIError", "StatementError", "SQLAlchemyError", "Exception">>
    [] c = "Exception" -> <<c>>
    [] OTHER -> <<c, "Exception">>

\* The classes a handler is registered for.
Registered ==
  {"NotFoundError", "ValidationError", "InsufficientStockError", "ConflictError",
   "HTTPException", "Exception"}

\* The handler of exception e: the one registered for the first class of the
\* classes of e that has one.
RECURSIVE first_registered(_)
first_registered(classes) ==
  IF Head(classes) \in Registered THEN Head(classes) ELSE first_registered(Tail(classes))

find_error_handler(e) == first_registered(mro(e.class))

\* The attributes of the instance e: its own where it has them, those of its
\* class otherwise; the name is the reason phrase of the code.
http_code(e) == IF "code" \in DOMAIN e THEN e.code ELSE HTTPException[e.class].code
http_description(e) ==
  IF "description" \in DOMAIN e THEN e.description ELSE HTTPException[e.class].description

\* The handler of the HTTP exceptions: status, name and description of e.
http_exception(e) ==
  [status |-> http_code(e),
   body |-> error_body(upper_snake(HTTP_STATUS_CODES(http_code(e))), http_description(e))]

\* The messages of the schema of the view for the payload of call e
\* (marshmallow's e.messages): the fields whose validator fails, in the order of
\* the schema, each with the messages of its validator.
field_error(field, message) == [field |-> field, messages |-> <<message>>]

schema_messages(e) ==
  CASE e.op = "create_fuel_type" ->
         (IF e.price < 0
          THEN <<field_error("price_per_litre", "price_per_litre must be >= 0")>>
          ELSE <<>>)
         \o (IF e.litres_e9 = 0 /\ e.litres < 0
             THEN <<field_error("initial_stock_litres", "initial_stock_litres must be >= 0")>>
             ELSE <<>>)
    [] e.op = "update_price" ->
         IF e.price < 0
         THEN <<field_error("price_per_litre", "price_per_litre must be >= 0")>>
         ELSE <<>>
    [] e.op \in {"refill_stock", "record_sale"} ->
         IF e.litres_e9 = 0 /\ e.litres <= 0
         THEN <<field_error("litres", "litres must be > 0")>>
         ELSE <<>>

\* str() of the dict of messages, in pieces: {'field': ['message'], ...}
RECURSIVE str_items(_)
str_items(errs) ==
  IF errs = <<>> THEN <<>>
  ELSE <<"'", errs[1].field, "': ['", errs[1].messages[1], "']">>
       \o (IF Len(errs) > 1 THEN <<", ">> ELSE <<>>)
       \o str_items(Tail(errs))

str_messages(errs) == <<"{">> \o str_items(errs) \o <<"}">>

\* The exception that leaves the view of call e: the view loads the payload
\* with its schema and raises ValidationError(e.messages) when that fails, and
\* calls the operation inside session_scope otherwise.
view_raises(e) ==
  IF schema_messages(e) # <<>>
  THEN [class |-> "ValidationError", text |-> str_messages(schema_messages(e))]
  ELSE Raised(e)

\* Variant: the last-resort handler reports the text of the exception.
register_error_handlers_leaky(e) ==
  LET h == find_error_handler(e)
  IN CASE h = "NotFoundError" -> [status |-> 404, body |-> error_body("NOT_FOUND", e.text)]
       [] h = "ValidationError" -> [status |-> 400, body |-> error_body("BAD_REQUEST", e.text)]
       [] h = "InsufficientStockError" ->
            [status |-> 409, body |-> error_body("INSUFFICIENT_STOCK", e.text)]
       [] h = "ConflictError" -> [status |-> 409, body |-> error_body("CONFLICT", e.text)]
       [] h = "HTTPException" -> http_exception(e)
       [] h = "Exception" ->
            [status |-> 500, body |-> error_body("INTERNAL_ERROR", e.text)]

\* The response of the boundary to exception e: that of the handler registered
\* for its class or the nearest class above it: a domain error, an HTTP
\* exception of the framework, or the last-resort handler of Exception.
register_error_handlers(e) ==
  LET h == find_error_handler(e)
  IN CASE h = "NotFoundError" -> [status |-> 404, body |-> error_body("NOT_FOUND", e.text)]
       [] h = "ValidationError" -> [status |-> 400, body |-> error_body("BAD_REQUEST", e.text)]
       [] h = "InsufficientStockError" ->
            [status |-> 409, body |-> error_body("INSUFFICIENT_STOCK", e.text)]
       [] h = "ConflictError" -> [status |-> 409, body |-> error_body("CONFLICT", e.text)]
       [] h = "HTTPException" -> http_exception(e)
       [] h = "Exception" ->
            [status |-> 500, body |-> error_body("INTERNAL_ERROR", <<"An unexpected error occurred.">>)]

\* ------------------------------------------------------------------ specification

\* The store after construction: empty tables.
InitEmpty ==
  /\ fuel_types = <<>>
  /\ fuel_price_history = <<>>
  /\ sales = <<>>
  /\ fuel_types_id_seq = 0
  /\ clock = 1
  /\ tx = [w \in Workers |-> Idle]
  /\ calls = [w \in Workers |-> 0]
  /\ log = <<>>

\* The store after one committed create_fuel_type(args) on the empty store:
\* the state every scenario of the test suite starts from. The transaction
\* began at time 1 and committed at time 2.
SeedTx(args) ==
  [Idle EXCEPT !.op = "create_fuel_type", !.name = strip(args[1]),
               !.price = to_decimal(args[2]), !.litres = to_decimal(args[3]),
               !.now = 1, !.id = 1,
               !.ret = [NoRet EXCEPT !.stock = to_decimal(args[3]),
                                     !.price = to_decimal(args[2]), !.at = 1]]

InitSeeded ==
  \E args \in { a \in CreateInputs : a[2] >= 0 /\ a[3] >= 0 } :
    /\ fuel_types = (1 :> create_row(SeedTx(args), 1))
    /\ fuel_price_history =
         << [fuel_type_id |-> 1, price_per_litre |-> SeedTx(args).price,
             valid_from |-> 1, valid_to |-> {}] >>
    /\ sales = <<>>
    /\ fuel_types_id_seq = 1
    /\ clock = 3
    /\ tx = [w \in Workers |-> Idle]
    /\ calls = [w \in Workers |-> 0]
    /\ log = << EntryAt(SeedTx(args), "ok", 2) >>

Init == InitEmpty \/ InitSeeded

Next ==
  \E w \in MainThreads :
    \/ Call_create_fuel_type(w)
    \/ create_check(w)
    \/ create_insert(w)
    \/ create_insert_resume(w)
    \/ create_history(w)
    \/ create_history_error(w)
    \/ Call_update_price(w)
    \/ update_price_close(w)
    \/ update_price_close_resume(w)
    \/ update_price_update(w)
    \/ update_price_update_resume(w)
    \/ update_price_insert(w)
    \/ Call_record_sale(w)
    \/ record_sale_stmt(w)
    \/ record_sale_resume(w)
    \/ record_sale_exists(w)
    \/ Call_refill_stock(w)
    \/ refill_stock_stmt(w)
    \/ refill_stock_resume(w)
    \/ Commit(w)

Spec == Init /\ [][Next]_vars

\* The statement request thread w is at, whatever it is.
Handler(w) ==
  \/ create_check(w)
  \/ create_insert(w)
  \/ create_insert_resume(w)
  \/ create_history(w)
  \/ create_history_error(w)
  \/ update_price_close(w)
  \/ update_price_close_resume(w)
  \/ update_price_update(w)
  \/ update_price_update_resume(w)
  \/ update_price_insert(w)
  \/ record_sale_stmt(w)
  \/ record_sale_resume(w)
  \/ record_sale_exists(w)
  \/ refill_stock_stmt(w)
  \/ refill_stock_resume(w)
  \/ Commit(w)

\* The general specification with its scheduling: a request thread whose
\* handler can take its next step (its statement is not waiting for a lock)
\* takes it in the end, and the store wakes a waiting statement when the lock
\* it waits for is released.
SpecFair == Init /\ [][Next]_vars /\ \A w \in MainThreads : WF_vars(Handler(w))

\* Competing sales (tests/test_concurrency.py): every request thread makes one
\* record_sale call on the seeded fuel type.
SaleLitres == { l \in LitresInputs : l > 0 }

Thread_record_sale(w) ==
  /\ tx[w].pc = "idle"
  /\ calls[w] = 0
  /\ \E litres \in SaleLitres : record_sale_call(w, 1, litres)

NextSales ==
  \E w \in Workers :
    \/ Thread_record_sale(w)
    \/ record_sale_stmt(w)
    \/ record_sale_resume(w)
    \/ record_sale_exists(w)
    \/ Commit(w)

SpecSales == InitSeeded /\ [][NextSales]_vars

\* Reads beside writers: the request threads make update_price and record_sale
\* calls on a seeded store while one more thread makes read calls, one after
\* the other, without end.
InitReads ==
  /\ InitSeeded
  /\ fuel_types[1].name = <<"D">>
  /\ fuel_types[1].price_per_litre = 1005
  /\ fuel_types[1].stock_litres = 1000

Readers == Workers \ MainThreads

NextReads ==
  \/ \E w \in MainThreads :
       \/ Call_update_price(w)
       \/ update_price_close(w)
       \/ update_price_close_resume(w)
       \/ update_price_update(w)
       \/ update_price_update_resume(w)
       \/ update_price_insert(w)
       \/ Call_record_sale(w)
       \/ record_sale_stmt(w)
       \/ record_sale_resume(w)
       \/ record_sale_exists(w)
       \/ Commit(w)
  \/ \E w \in Readers :
       \/ Call_list_fuel_types(w)
       \/ Call_list_inventory(w)
       \/ Call_list_sales(w)
       \/ Call_sales_overview(w)
       \/ Step_sales_overview_q2(w)
       \/ Step_sales_overview_q3(w)
       \/ Call_sales_timeseries(w)
       \/ Call_sales_by_fuel_type(w)
       \/ Call_price_history(w)
       \/ Return_read(w)

SpecReads == InitReads /\ [][NextReads]_vars

\* Refills at the top of the column: the store after one committed
\* create_fuel_type whose initial stock is 500 or 1500 thousandths of a litre
\* below 10^11 litres, and request threads that make refill_stock calls.
SeedFull(low) ==
  [SeedTx(<< <<"D">>, 1005, low >>) EXCEPT
     !.litres_e9 = 10^(StockPrecision - 9) - 1,
     !.ret.stock_e9 = 10^(StockPrecision - 9) - 1]

InitFull ==
  \E low \in { E9 - 500, E9 - 1500 } :
    /\ fuel_types = (1 :> create_row(SeedFull(low), 1))
    /\ fuel_price_history =
         << [fuel_type_id |-> 1, price_per_litre |-> SeedFull(low).price,
             valid_from |-> 1, valid_to |-> {}] >>
    /\ sales = <<>>
    /\ fuel_types_id_seq = 1
    /\ clock = 3
    /\ tx = [w \in Workers |-> Idle]
    /\ calls = [w \in Workers |-> 0]
    /\ log = << EntryAt(SeedFull(low), "ok", 2) >>

NextRefill ==
  \E w \in Workers :
    \/ Call_refill_stock(w)
    \/ refill_stock_stmt(w)
    \/ refill_stock_resume(w)
    \/ Commit(w)

SpecRefill == InitFull /\ [][NextRefill]_vars

\* ------------------------------------------------------------------ observations

LogIdx == 1..Len(log)
SaleIdx == 1..Len(sales)
IsOk(i) == log[i].outcome = "ok"

RECURSIVE LogLitres(_)
LogLitres(S) ==
  IF S = {} THEN 0
  ELSE LET i == CHOOSE x \in S : TRUE IN log[i].litres + LogLitres(S \ {i})

RECURSIVE SoldUpTo(_, _)
SoldUpTo(n, id) ==
  IF n = 0 THEN 0
  ELSE (IF sales[n].fuel_type_id = id THEN sales[n].litres ELSE 0) + SoldUpTo(n - 1, id)

\* Litres of all committed Sale rows of fuel type id.
SoldLitres(id) == SoldUpTo(Len(sales), id)
SaleRows(id) == { n \in SaleIdx : sales[n].fuel_type_id = id }

\* Initial stock plus all committed refills of fuel type id.
StockAdded(id) ==
  LogLitres({ i \in LogIdx : /\ IsOk(i) /\ log[i].id = id
                             /\ log[i].op \in {"create_fuel_type", "refill_stock"} })

\* The calls on fuel type id that reached the store, and those in progress.
CallsOn(id) == { i \in LogIdx : log[i].id = id /\ log[i].outcome # "Validation" }
SalesOn(id) == { i \in CallsOn(id) : log[i].op = "record_sale" }
CreatesOf(id) == { i \in CallsOn(id) : log[i].op = "create_fuel_type" /\ IsOk(i) }
Busy(id) == \E w \in Workers : tx[w].pc # "idle" /\ tx[w].id = id
Overlap(i, j) == log[i].begin_at < log[j].end_at /\ log[j].begin_at < log[i].end_at

\* Call i began once the creation of fuel type id had committed.
AfterCreate(id, i) == \A c \in CreatesOf(id) : log[c].end_at < log[i].begin_at

\* Fuel type id was created and, since, only record_sale calls were made on it,
\* all of them finished.
OnlySales(id) ==
  /\ ~Busy(id)
  /\ CreatesOf(id) # {}
  /\ CallsOn(id) = CreatesOf(id) \cup SalesOn(id)
  /\ \A i \in SalesOn(id) : AfterCreate(id, i)
InitialStock(id) == LogLitres(CreatesOf(id))
OkSales(id) == { i \in SalesOn(id) : IsOk(i) }

\* ------------------------------------------------------------------ claims

\* C1: in every committed state every fuel type has stock_litres >= 0 and
\* price_per_litre >= 0 (the CHECK constraints of fuel_types are never violated
\* by what the engine commits).
C1_StockAndPriceNonNegative ==
  \A id \in DOMAIN fuel_types :
    ck_ft_stock_ge_0(fuel_types[id]) /\ ck_ft_price_ge_0(fuel_types[id])

\* A sale has emptied a fuel type and a later sale on it was refused.
C1_Witness ==
  \E id \in DOMAIN fuel_types :
    /\ fuel_types[id].stock_litres = 0
    /\ OkSales(id) # {}
    /\ \E i \in SalesOn(id) : log[i].outcome = "InsufficientStock"

\* C2: for every fuel type, the litres of its committed sales never exceed its
\* initial stock plus its committed refills.
C2_SalesNeverExceedSupply ==
  \A id \in DOMAIN fuel_types : SoldLitres(id) <= StockAdded(id)

\* Everything supplied, a refill included, has been sold.
C2_Witness ==
  \E id \in DOMAIN fuel_types :
    /\ SoldLitres(id) = StockAdded(id)
    /\ SoldLitres(id) > InitialStock(id)
    /\ \E i \in CallsOn(id) : log[i].op = "refill_stock" /\ IsOk(i)

\* C3: stock conservation: in every committed state the stock of a fuel type is
\* its initial stock plus its committed refills minus the litres of its committed
\* Sale rows.
C3_StockConservation ==
  \A id \in DOMAIN fuel_types :
    fuel_types[id].stock_litres = StockAdded(id) - SoldLitres(id)

\* A sale and a refill of the same fuel type overlapped and both committed.
C3_Witness ==
  \E id \in DOMAIN fuel_types :
    \E i, j \in CallsOn(id) :
      /\ log[i].op = "record_sale" /\ IsOk(i)
      /\ log[j].op = "refill_stock" /\ IsOk(j)
      /\ Overlap(i, j)

\* C4: two record_sale calls of q litres each on a fuel type with stock S,
\* q <= S < 2q, and no other call on it: exactly one succeeds, the other fails
\* with InsufficientStock, the stock ends at S - q and one Sale row exists.
C4_Case(id) ==
  /\ OnlySales(id)
  /\ Cardinality(SalesOn(id)) = 2
  /\ \E q \in SaleLitres :
       /\ \A i \in SalesOn(id) : log[i].litres = q
       /\ q <= InitialStock(id)
       /\ InitialStock(id) < 2 * q

C4_TwoCompetingSalesOneWins ==
  \A id \in DOMAIN fuel_types :
    C4_Case(id) =>
      /\ Cardinality(OkSales(id)) = 1
      /\ \A i \in SalesOn(id) \ OkSales(id) : log[i].outcome = "InsufficientStock"
      /\ fuel_types[id].stock_litres = InitialStock(id) - LogLitres(OkSales(id))
      /\ Cardinality(SaleRows(id)) = 1

\* The two sales overlapped in time.
C4_Witness ==
  \E id \in DOMAIN fuel_types :
    /\ C4_Case(id)
    /\ \E i, j \in SalesOn(id) : i # j /\ Overlap(i, j)

\* C5: N record_sale calls of q litres each against stock S with N*q > S >= q
\* and no other call on the fuel type: between 1 and S \div q succeed, every
\* failure is InsufficientStock, the litres sold are <= S and the stock ends at S
\* minus the litres sold.
C5_Case(id) ==
  /\ OnlySales(id)
  /\ \E q \in SaleLitres :
       /\ \A i \in SalesOn(id) : log[i].litres = q
       /\ Cardinality(SalesOn(id)) * q > InitialStock(id)
       /\ InitialStock(id) >= q

C5_ManySalesNeverOversell ==
  \A id \in DOMAIN fuel_types :
    C5_Case(id) =>
      LET q == LogLitres(SalesOn(id)) \div Cardinality(SalesOn(id))
          sold == LogLitres(OkSales(id))
      IN /\ Cardinality(OkSales(id)) >= 1
         /\ Cardinality(OkSales(id)) <= InitialStock(id) \div q
         /\ \A i \in SalesOn(id) \ OkSales(id) : log[i].outcome = "InsufficientStock"
         /\ sold <= InitialStock(id)
         /\ sold = SoldLitres(id)
         /\ fuel_types[id].stock_litres = InitialStock(id) - sold

\* Three sales were in progress at the same time and one of them was refused.
C5_Witness ==
  \E id \in DOMAIN fuel_types :
    /\ C5_Case(id)
    /\ Cardinality(SalesOn(id)) >= 3
    /\ \A i, j \in SalesOn(id) : Overlap(i, j)
    /\ \E i \in SalesOn(id) : ~IsOk(i)

\* C6: record_sale calls on one fuel type whose litres total at most its stock
\* (no other call on it) all succeed; the stock ends at the initial stock minus
\* the total and there is one Sale row per call.
C6_Case(id) ==
  /\ OnlySales(id)
  /\ SalesOn(id) # {}
  /\ LogLitres(SalesOn(id)) <= InitialStock(id)

C6_SalesWithinStockAllSucceed ==
  \A id \in DOMAIN fuel_types :
    C6_Case(id) =>
      /\ OkSales(id) = SalesOn(id)
      /\ fuel_types[id].stock_litres = InitialStock(id) - LogLitres(SalesOn(id))
      /\ Cardinality(SaleRows(id)) = Cardinality(SalesOn(id))

\* Overlapping sales have taken exactly the whole stock.
C6_Witness ==
  \E id \in DOMAIN fuel_types :
    /\ C6_Case(id)
    /\ Cardinality(SalesOn(id)) >= 2
    /\ \A i, j \in SalesOn(id) : Overlap(i, j)
    /\ fuel_types[id].stock_litres = 0

\* C7: every committed Sale has amount = litres * price_at_sale rounded to two
\* decimals, ties rounded up: the exact product, in millionths, lies within half
\* a hundredth of the amount.
C7_AmountIsRoundedProduct ==
  \A n \in SaleIdx :
    LET d == sales[n].litres * sales[n].price_at_sale - 10000 * sales[n].amount
    IN d >= -5000 /\ d < 5000

\* A committed sale whose exact product lies half-way between two hundredths
\* (1.000 litres at 1.005 is stored as 1.01).
C7_Witness ==
  \E n \in SaleIdx :
    sales[n].litres * sales[n].price_at_sale - 10000 * sales[n].amount = -5000

\* C8: for every committed Sale, price_at_sale is the price of some history
\* segment of the same fuel type whose valid_from is <= the sale's sold_at.
C8_PriceAtSaleWasLive ==
  \A n \in SaleIdx :
    \E k \in 1..Len(fuel_price_history) :
      /\ fuel_price_history[k].fuel_type_id = sales[n].fuel_type_id
      /\ fuel_price_history[k].price_per_litre = sales[n].price_at_sale
      /\ fuel_price_history[k].valid_from <= sales[n].sold_at

\* C9: a record_sale of q <= stock litres alongside one update_price on the
\* same fuel type succeeds; its price_at_sale is the committed price of the
\* fuel type at the step of its own decrement (so the old or the new price),
\* its amount is q * price_at_sale and the stock goes down by exactly q.
C9_Case(id) ==
  /\ ~Busy(id)
  /\ CreatesOf(id) # {}
  /\ \E u, s \in CallsOn(id) :
       /\ log[u].op = "update_price"
       /\ log[s].op = "record_sale"
       /\ log[s].litres <= InitialStock(id)
       /\ AfterCreate(id, u) /\ AfterCreate(id, s)
       /\ CallsOn(id) = CreatesOf(id) \cup {u, s}

C9_Outcome ==
  \A id \in DOMAIN fuel_types :
    C9_Case(id) =>
      \A u, s \in CallsOn(id) :
        (log[u].op = "update_price" /\ log[s].op = "record_sale") =>
          /\ IsOk(u) /\ IsOk(s)
          /\ \/ log[s].ret.price = log[u].price
             \/ \E c \in CreatesOf(id) : log[s].ret.price = log[c].price
          /\ fuel_types[id].stock_litres = InitialStock(id) - log[s].litres
          /\ \E n \in SaleRows(id) :
               /\ SaleRows(id) = {n}
               /\ sales[n].litres = log[s].litres
               /\ sales[n].price_at_sale = log[s].ret.price
               /\ sales[n].amount = log[s].ret.amount
               /\ sales[n].amount = sale_amount(sales[n].litres, sales[n].price_at_sale)

C9_DecrementStep ==
  \A w \in Workers :
    (tx[w].pc \in {"sale_stmt", "sale_wait"} /\ tx'[w].pc = "commit") =>
      /\ tx'[w].w_sale[1].price_at_sale = fuel_types[tx[w].id].price_per_litre
      /\ tx'[w].w_ft[tx[w].id].price_per_litre = fuel_types[tx[w].id].price_per_litre
      /\ tx'[w].w_ft[tx[w].id].stock_litres =
           fuel_types[tx[w].id].stock_litres - tx[w].litres

C9_SaleUsesLivePrice == []C9_Outcome /\ [][C9_DecrementStep]_vars

\* The sale began before the price change committed, waited or ran after it,
\* and recorded the new price.
C9_Witness ==
  \E id \in DOMAIN fuel_types :
    /\ C9_Case(id)
    /\ \E u, s \in CallsOn(id) :
         /\ log[u].op = "update_price" /\ log[s].op = "record_sale"
         /\ Overlap(u, s)
         /\ log[s].ret.price = log[u].price
         /\ \A c \in CreatesOf(id) : log[c].price # log[u].price

\* C10: a sale that does not overlap any price-setting call on its fuel type
\* (create_fuel_type, update_price) records the price set by the last of them
\* that committed before the sale began: p1 after create_fuel_type(p1), p2 once
\* update_price(p2) has committed.
PriceSetters(id) ==
  { i \in CallsOn(id) : IsOk(i) /\ log[i].op \in {"create_fuel_type", "update_price"} }

C10_SequentialSaleUsesCurrentPrice ==
  \A s \in LogIdx :
    (log[s].op = "record_sale" /\ IsOk(s)) =>
      LET P == PriceSetters(log[s].id)
          before == { e \in P : log[e].end_at < log[s].begin_at }
      IN (\A e \in P : e \in before \/ log[e].begin_at > log[s].end_at) =>
           \E e \in before :
             /\ \A f \in before : log[f].end_at <= log[e].end_at
             /\ log[s].ret.price = log[e].price

\* A sale made after a committed price change recorded the new price, which
\* differs from the price the fuel type was created with.
C10_Witness ==
  \E s, u \in LogIdx :
    /\ log[s].op = "record_sale" /\ IsOk(s)
    /\ log[u].op = "update_price" /\ IsOk(u) /\ log[u].id = log[s].id
    /\ log[u].end_at < log[s].begin_at
    /\ log[s].ret.price = log[u].price
    /\ \A c \in CreatesOf(log[s].id) : log[c].price # log[u].price

\* The history segments of fuel type id.
Segs(id) ==
  { i \in 1..Len(fuel_price_history) : fuel_price_history[i].fuel_type_id = id }

\* Segment i ends at or before the start of segment j.
EndsBefore(i, j) ==
  /\ fuel_price_history[i].valid_to # {}
  /\ \A t \in fuel_price_history[i].valid_to : t <= fuel_price_history[j].valid_from

\* The update_price calls that reached the store, and those on fuel type id.
PriceUpdates == { i \in LogIdx : log[i].op = "update_price" /\ log[i].outcome # "Validation" }
PriceUpdatesOn(id) == { i \in PriceUpdates : log[i].id = id }

\* C11: in every committed state every fuel type has exactly one price-history
\* segment with an open end (valid_to unset), also when update_price calls on
\* it run concurrently.
C11_ExactlyOneOpenSegment ==
  \A id \in DOMAIN fuel_types : Cardinality(OpenSegs(id)) = 1

\* C12: the intervals [valid_from, valid_to) of the history segments of one
\* fuel type never overlap: of any two distinct segments, one ends at or before
\* the start of the other.
C12_SegmentsNeverOverlap ==
  \A id \in DOMAIN fuel_types :
    \A i, j \in Segs(id) : i # j => (EndsBefore(i, j) \/ EndsBefore(j, i))

\* Case folding of the characters names are made of.
casefold(c) == IF c = "D" THEN "d" ELSE c
\* The normalized form of a name: surrounding whitespace removed, case folded.
normalize(name) == [k \in 1..Len(strip(name)) |-> casefold(strip(name)[k])]

\* The create_fuel_type calls that reached the store and were not cut short by
\* a failure of the store.
Creates ==
  { i \in LogIdx : /\ log[i].op = "create_fuel_type"
                   /\ log[i].outcome \notin {"Validation", "StoreFailure"} }

\* Some fuel type whose normalized name is that of call i had been committed
\* when call i began.
NameTaken(i) ==
  \E c \in Creates :
    /\ IsOk(c) /\ log[c].end_at < log[i].begin_at
    /\ normalize(log[c].name) = normalize(log[i].name)

\* C13: create_fuel_type with a name that, after case/whitespace normalization,
\* equals the name of an existing fuel type fails with Conflict and writes
\* nothing: no row exists for it.
C13_DuplicateNameIsConflict ==
  \A i \in Creates :
    NameTaken(i) => (log[i].outcome = "Conflict" /\ log[i].id \notin DOMAIN fuel_types)

\* C14: in every committed state no two fuel types have the same name, also
\* when two create_fuel_type calls with that name ran concurrently and both
\* passed the existence pre-check before either inserted.
C14_NamesUnique ==
  \A i, j \in DOMAIN fuel_types :
    i # j => fuel_types[i].name # fuel_types[j].name

\* Two overlapping creations of one name both got past the pre-check (both
\* drew an id): one committed its row, the other was stopped by the unique
\* index.
C14_Witness ==
  \E i, j \in Creates :
    /\ i # j /\ Overlap(i, j)
    /\ log[i].name = log[j].name
    /\ IsOk(i) /\ log[i].id \in DOMAIN fuel_types
    /\ log[j].outcome = "Internal" /\ log[j].id # 0

\* C15: of two create_fuel_type calls with the same name running concurrently
\* (no fuel type of that name existed when they began), exactly one succeeds
\* and the other ends with Conflict, having written nothing.
C15_ConcurrentDuplicateIsConflict ==
  \A i, j \in Creates :
    ( /\ i # j /\ Overlap(i, j)
      /\ log[i].name = log[j].name
      /\ ~NameTaken(i) /\ ~NameTaken(j)
      /\ log[i].end_at < log[j].end_at ) =>
        /\ IsOk(i)
        /\ log[j].outcome = "Conflict"
        /\ log[j].id \notin DOMAIN fuel_types

\* The create_fuel_type calls that ended without success after drawing an id.
FailedCreates ==
  { i \in LogIdx : /\ log[i].op = "create_fuel_type"
                   /\ log[i].outcome \in {"Internal", "StoreFailure"} }

\* C16: a successful create_fuel_type(name, price, initial_stock) commits, in
\* one step, the fuel type row with that price and stock and exactly one
\* history segment for it, open-ended and with the same price; no committed
\* state has a fuel type without a history segment, and a creation whose
\* segment insert failed leaves no fuel type row.
C16_NeverWithoutHistory ==
  /\ \A id \in DOMAIN fuel_types : Segs(id) # {}
  /\ \A i \in FailedCreates : log[i].id \notin DOMAIN fuel_types /\ Segs(log[i].id) = {}

C16_CommitStep ==
  \A id \in (DOMAIN fuel_types') \ (DOMAIN fuel_types) :
    LET new == { k \in (Len(fuel_price_history) + 1)..Len(fuel_price_history') :
                   fuel_price_history'[k].fuel_type_id = id }
        done == log'[Len(log')]
    IN /\ Cardinality(new) = 1
       /\ \A k \in new :
            /\ fuel_price_history'[k].valid_to = {}
            /\ fuel_price_history'[k].price_per_litre = fuel_types'[id].price_per_litre
       /\ done.op = "create_fuel_type" /\ done.outcome = "ok" /\ done.id = id
       /\ fuel_types'[id].price_per_litre = done.price
       /\ fuel_types'[id].stock_litres = done.litres
       /\ fuel_types'[id].name = done.name

C16_CreateIsAtomic == []C16_NeverWithoutHistory /\ [][C16_CommitStep]_vars

\* One creation failed at the insert of its segment, another one committed.
C16_Witness ==
  /\ \E i \in FailedCreates : log[i].outcome = "StoreFailure" /\ log[i].id # 0
  /\ \E i \in Creates : IsOk(i) /\ log[i].begin_at > 2 /\ log[i].id \in DOMAIN fuel_types

\* C17: update_price on a fuel_type_id that does not exist fails with NotFound
\* and changes nothing: no step of the call changes a fuel type, a history
\* segment (none is closed, none inserted) or a sale.
C17_Outcome ==
  \A i \in PriceUpdates :
    log[i].id \notin DOMAIN fuel_types =>
      /\ log[i].outcome = "NotFound"
      /\ Segs(log[i].id) = {}

C17_Step ==
  \A w \in Workers :
    ( /\ tx[w].op = "update_price"
      /\ tx[w].id \notin DOMAIN fuel_types
      /\ tx'[w] # tx[w] ) => UNCHANGED db

C17_UpdatePriceNotFound == []C17_Outcome /\ [][C17_Step]_vars

\* update_price on an id without a row ended with NotFound while another fuel
\* type, with its history, was in the store.
C17_Witness ==
  \E i \in LogIdx :
    /\ log[i].op = "update_price" /\ log[i].outcome = "NotFound"
    /\ log[i].id \notin DOMAIN fuel_types
    /\ \E id \in DOMAIN fuel_types : OpenSegs(id) # {}

\* C18: two update_price calls on one fuel type that run concurrently (and no
\* other call on it since its creation) both succeed; afterwards the live price
\* is the new_price of the one that committed last, the history has gained two
\* segments, the one of the call that committed first is closed and the only
\* open one carries the last-committed price.
C18_Case(id, u, v) ==
  /\ ~Busy(id)
  /\ CreatesOf(id) # {}
  /\ u # v /\ Overlap(u, v)
  /\ log[u].end_at < log[v].end_at
  /\ AfterCreate(id, u) /\ AfterCreate(id, v)
  /\ CallsOn(id) = CreatesOf(id) \cup {u, v}

C18_LastCommittedWins ==
  \A id \in DOMAIN fuel_types :
    \A u, v \in PriceUpdatesOn(id) :
      C18_Case(id, u, v) =>
        /\ IsOk(u) /\ IsOk(v)
        /\ fuel_types[id].price_per_litre = log[v].price
        /\ Cardinality(Segs(id)) = 3
        /\ \A k \in OpenSegs(id) :
             /\ fuel_price_history[k].price_per_litre = log[v].price
             /\ fuel_price_history[k].valid_from = log[v].begin_at
        /\ Cardinality(OpenSegs(id)) = 1

\* C19: refill_stock(id, litres) with litres > 0 on an existing fuel type sets
\* the stock to the stock at the instant of its update plus litres and returns
\* that value as new_stock; with refills and sales running concurrently its
\* commit raises the committed stock by exactly litres, to the value returned.
C19_UpdateStep ==
  \A w \in Workers :
    ( /\ tx[w].op = "refill_stock"
      /\ tx[w].pc \in {"refill_stmt", "refill_wait"}
      /\ tx'[w].pc = "commit" ) =>
        /\ tx'[w].w_ft[tx[w].id].stock_litres =
             fuel_types[tx[w].id].stock_litres + tx[w].litres
        /\ tx'[w].ret.stock = tx'[w].w_ft[tx[w].id].stock_litres

C19_CommitStep ==
  \A w \in Workers :
    ( /\ tx[w].op = "refill_stock"
      /\ tx[w].pc = "commit"
      /\ tx'[w].pc = "idle" ) =>
        /\ fuel_types'[tx[w].id].stock_litres =
             fuel_types[tx[w].id].stock_litres + tx[w].litres
        /\ log'[Len(log')].outcome = "ok"
        /\ log'[Len(log')].ret.stock = fuel_types'[tx[w].id].stock_litres
        /\ fuel_types'[tx[w].id].price_per_litre = fuel_types[tx[w].id].price_per_litre

C19_RefillAddsExactly == [][C19_UpdateStep /\ C19_CommitStep]_vars

\* A refill overlapped a sale or another refill of the same fuel type that
\* committed first; the refill returned the stock with both changes in it.
C19_Witness ==
  \E id \in DOMAIN fuel_types :
    \E r, j \in CallsOn(id) :
      /\ r # j /\ Overlap(r, j)
      /\ log[r].op = "refill_stock" /\ IsOk(r)
      /\ log[j].op \in {"refill_stock", "record_sale"} /\ IsOk(j)
      /\ log[j].end_at < log[r].end_at
      /\ log[r].ret.stock = fuel_types[id].stock_litres
      /\ log[r].ret.stock # InitialStock(id) + log[r].litres

\* The refill_stock calls that reached the store.
Refills == { i \in LogIdx : log[i].op = "refill_stock" /\ log[i].outcome # "Validation" }

\* C20: refill_stock with litres > 0 on a fuel_type_id that does not exist
\* fails with NotFound and changes no stock, price, history segment or sale.
C20_Outcome ==
  \A i \in Refills :
    log[i].id \notin DOMAIN fuel_types => log[i].outcome = "NotFound"

C20_Step ==
  \A w \in Workers :
    ( /\ tx[w].op = "refill_stock"
      /\ tx[w].id \notin DOMAIN fuel_types
      /\ tx'[w] # tx[w] ) => UNCHANGED db

C20_RefillNotFound == []C20_Outcome /\ [][C20_Step]_vars

\* A refill of an id without a row ended with NotFound while another fuel type
\* had stock.
C20_Witness ==
  \E i \in Refills :
    /\ log[i].outcome = "NotFound"
    /\ log[i].id \notin DOMAIN fuel_types
    /\ \E id \in DOMAIN fuel_types : fuel_types[id].stock_litres > 0

\* The record_sale calls that reached the store.
Sales == { i \in LogIdx : log[i].op = "record_sale" /\ log[i].outcome # "Validation" }

\* C21: a record_sale with litres > 0 whose conditional decrement affects no
\* row fails with NotFound when the fuel type does not exist and with
\* InsufficientStock when it exists with stock < litres; in both cases no stock
\* is decremented and no Sale row is inserted.
C21_Outcome ==
  \A i \in Sales :
    /\ log[i].id \notin DOMAIN fuel_types => log[i].outcome = "NotFound"
    /\ (CreatesOf(log[i].id) # {} /\ AfterCreate(log[i].id, i) /\ ~IsOk(i)) =>
         log[i].outcome = "InsufficientStock"

C21_DecrementStep ==
  \A w \in Workers :
    (tx[w].op = "record_sale" /\ tx[w].pc \in {"sale_stmt", "sale_wait"}) =>
      ( tx'[w].pc = "sale_exists" <=>
          ( /\ tx'[w] # tx[w]
            /\ \/ tx[w].id \notin DOMAIN fuel_types
               \/ fuel_types[tx[w].id].stock_litres < tx[w].litres ) )

C21_FailStep ==
  \A w \in Workers :
    (tx[w].pc = "sale_exists" /\ tx'[w].pc = "idle") =>
      /\ UNCHANGED db
      /\ tx[w].w_ft = <<>> /\ tx[w].w_sale = <<>>
      /\ log'[Len(log')].outcome =
           IF tx[w].id \in DOMAIN fuel_types THEN "InsufficientStock" ELSE "NotFound"

C21_FailedSaleOutcome ==
  []C21_Outcome /\ [][C21_DecrementStep /\ C21_FailStep]_vars

\* One sale failed with NotFound on an id without a row, another one with
\* InsufficientStock on a fuel type whose stock is untouched and has no Sale.
C21_Witness ==
  /\ \E i \in Sales : log[i].outcome = "NotFound" /\ log[i].id \notin DOMAIN fuel_types
  /\ \E i \in Sales :
       /\ log[i].outcome = "InsufficientStock"
       /\ log[i].id \in DOMAIN fuel_types
       /\ fuel_types[log[i].id].stock_litres = InitialStock(log[i].id)
       /\ fuel_types[log[i].id].stock_litres < log[i].litres
       /\ SaleRows(log[i].id) = {}

\* C22: input validation comes before every store-dependent outcome and touches
\* no state: record_sale and refill_stock with litres <= 0 fail with Validation
\* even on an id without a row, update_price and create_fuel_type with a
\* negative price (or negative initial stock) fail with Validation; no
\* transaction is opened, so no row is read, written or locked.
InvalidInput(e) ==
  \/ e.op \in {"record_sale", "refill_stock"} /\ e.litres <= 0
  \/ e.op = "update_price" /\ e.price < 0
  \/ e.op = "create_fuel_type" /\ (e.price < 0 \/ e.litres < 0)

C22_Outcome ==
  \A i \in LogIdx : InvalidInput(log[i]) <=> log[i].outcome = "Validation"

C22_RejectStep ==
  (Len(log') > Len(log) /\ InvalidInput(log'[Len(log')])) =>
    UNCHANGED <<db, fuel_types_id_seq, tx>>

C22_NeverInFlight ==
  \A w \in Workers : tx[w].pc # "idle" => ~InvalidInput(tx[w])

C22_ValidationFirst == [](C22_Outcome /\ C22_NeverInFlight) /\ [][C22_RejectStep]_vars

\* A sale and a refill with litres 0 on an id without a row both ended with
\* Validation while a fuel type was in the store.
C22_Witness ==
  /\ DOMAIN fuel_types # {}
  /\ \E i \in LogIdx :
       /\ log[i].op = "record_sale" /\ log[i].litres <= 0
       /\ log[i].id \notin DOMAIN fuel_types /\ log[i].outcome = "Validation"
  /\ \E i \in LogIdx :
       /\ log[i].op = "refill_stock" /\ log[i].litres <= 0
       /\ log[i].id \notin DOMAIN fuel_types /\ log[i].outcome = "Validation"

\* C23: a record_sale of exactly the remaining stock succeeds and leaves stock
\* 0; from then on, until a refill commits, every record_sale with litres > 0 on
\* that fuel type fails with InsufficientStock, inserts no Sale and leaves the
\* stock at 0.
C23_EmptyStep ==
  \A w \in Workers :
    ( /\ tx[w].op = "record_sale"
      /\ tx[w].pc \in {"sale_stmt", "sale_wait"}
      /\ tx'[w] # tx[w]
      /\ tx[w].id \in DOMAIN fuel_types
      /\ fuel_types[tx[w].id].stock_litres = 0 ) =>
        /\ tx'[w].pc = "sale_exists"
        /\ tx'[w].w_sale = <<>> /\ tx'[w].w_ft = <<>>
        /\ UNCHANGED db

\* Litres of the sales of fuel type id committed before call i began.
SoldBefore(id, i) ==
  LogLitres({ e \in OkSales(id) : log[e].end_at < log[i].begin_at })

\* Fuel type id got no stock other than its initial one.
NoRefill(id) ==
  /\ \A e \in CallsOn(id) : log[e].op # "refill_stock"
  /\ \A w \in Workers : ~(tx[w].op = "refill_stock" /\ tx[w].id = id)

C23_Outcome ==
  \A id \in DOMAIN fuel_types :
    \A i \in SalesOn(id) :
      (CreatesOf(id) # {} /\ AfterCreate(id, i) /\ NoRefill(id)) =>
        /\ ( /\ log[i].litres = InitialStock(id) - SoldBefore(id, i)
             /\ \A e \in SalesOn(id) \ {i} : ~Overlap(e, i) ) => IsOk(i)
        /\ SoldBefore(id, i) = InitialStock(id) =>
             /\ log[i].outcome = "InsufficientStock"
             /\ SoldLitres(id) = InitialStock(id)
             /\ (~Busy(id) => fuel_types[id].stock_litres = 0)

C23_EmptyUntilRefill == []C23_Outcome /\ [][C23_EmptyStep]_vars

\* A sale took exactly the whole stock; a sale made afterwards was refused.
C23_Witness ==
  \E id \in DOMAIN fuel_types :
    \E e, i \in SalesOn(id) :
      /\ NoRefill(id) /\ ~Busy(id)
      /\ IsOk(e) /\ log[e].litres = InitialStock(id)
      /\ log[e].end_at < log[i].begin_at
      /\ log[i].outcome = "InsufficientStock"
      /\ fuel_types[id].stock_litres = 0
      /\ Cardinality(SaleRows(id)) = 1

\* C24: the boundary maps every engine outcome to one status and machine code:
\* Validation -> 400 BAD_REQUEST, NotFound -> 404 NOT_FOUND, Conflict -> 409
\* CONFLICT, InsufficientStock -> 409 INSUFFICIENT_STOCK, any other exception a
\* call ends with -> 500 INTERNAL_ERROR with a fixed generic message that does
\* not depend on the exception; every error body, the one of an HTTP exception
\* of the framework included, has the shape {error: {code, message}}.
Failures == { i \in LogIdx : ~IsOk(i) }
Response(i) == register_error_handlers(view_raises(log[i]))
ErrorShape(r) == DOMAIN r.body = {"error"} /\ DOMAIN r.body.error = {"code", "message"}

C24_ErrorMapping ==
  /\ \A c \in DOMAIN HTTPException :
       ErrorShape(register_error_handlers([class |-> c, text |-> <<>>]))
  /\ \A i \in Failures :
       LET o == log[i].outcome
           r == Response(i)
       IN /\ ErrorShape(r)
          /\ o = "Validation" => (r.status = 400 /\ r.body.error.code = "BAD_REQUEST")
          /\ o = "NotFound" => (r.status = 404 /\ r.body.error.code = "NOT_FOUND")
          /\ o = "Conflict" => (r.status = 409 /\ r.body.error.code = "CONFLICT")
          /\ o = "InsufficientStock" =>
               (r.status = 409 /\ r.body.error.code = "INSUFFICIENT_STOCK")
          /\ o \notin DomainOutcomes =>
               /\ r.status = 500 /\ r.body.error.code = "INTERNAL_ERROR"
               /\ r.body.error.message # view_raises(log[i]).text
               /\ \A j \in Failures :
                    Response(j).status = 500 =>
                      Response(j).body.error.message = r.body.error.message

\* A call ended with a domain error and another one with an exception that is
\* none of the domain errors.
C24_Witness ==
  /\ \E i \in Failures : log[i].outcome \in {"Internal", "StoreFailure"}
  /\ \E i \in Failures : log[i].outcome \in {"Conflict", "NotFound", "InsufficientStock"}

\* The refill_stock calls on fuel type id that reached the store.
RefillsOn(id) == { i \in CallsOn(id) : log[i].op = "refill_stock" }

\* C25: the sequential run create_fuel_type(stock s, price p), refill_stock(r),
\* record_sale(q) with q <= s + r: the refill returns new_stock = s + r, the
\* sale returns price_at_sale = p and amount = q * p to two decimals, and the
\* inventory read that follows shows stock s + r - q.
C25_Case(id, c, r, s) ==
  /\ ~Busy(id)
  /\ CreatesOf(id) = {c}
  /\ r \in RefillsOn(id) /\ s \in SalesOn(id)
  /\ CallsOn(id) = {c, r, s}
  /\ log[c].end_at < log[r].begin_at
  /\ log[r].end_at < log[s].begin_at
  /\ log[s].litres <= log[c].litres + log[r].litres

C25_CreateRefillSell ==
  \A id \in DOMAIN fuel_types :
    \A c, r, s \in CallsOn(id) :
      C25_Case(id, c, r, s) =>
        /\ IsOk(r) /\ log[r].ret.stock = log[c].litres + log[r].litres
        /\ IsOk(s) /\ log[s].ret.price = log[c].price
        /\ 2 * (10000 * log[s].ret.amount - log[s].litres * log[c].price) \in -9999..10000
        /\ list_inventory[id].stock_litres =
             log[c].litres + log[r].litres - log[s].litres

\* The sale needed the refilled litres (s < q) and its amount was rounded.
C25_Witness ==
  \E id \in DOMAIN fuel_types :
    \E c, r, s \in CallsOn(id) :
      /\ C25_Case(id, c, r, s)
      /\ log[c].litres < log[s].litres
      /\ 10000 * log[s].ret.amount # log[s].litres * log[c].price

\* C26: a refill_stock(r) and a record_sale(q) on one fuel type with stock
\* s < q <= s + r: when the refill has committed before the sale's conditional
\* decrement executes, the sale succeeds, the final stock is s + r - q and there
\* is one Sale row; when the decrement executes before the refill commits, the
\* sale fails with InsufficientStock, the refill still succeeds, the final
\* stock is s + r and there is no Sale row.
C26_Case(id, r, s) ==
  /\ ~Busy(id)
  /\ CreatesOf(id) # {}
  /\ r \in RefillsOn(id) /\ s \in SalesOn(id)
  /\ AfterCreate(id, r) /\ AfterCreate(id, s)
  /\ CallsOn(id) = CreatesOf(id) \cup {r, s}
  /\ InitialStock(id) < log[s].litres
  /\ log[s].litres <= InitialStock(id) + log[r].litres

C26_Outcome ==
  \A id \in DOMAIN fuel_types :
    \A r, s \in CallsOn(id) :
      C26_Case(id, r, s) =>
        /\ IsOk(r)
        /\ \/ /\ IsOk(s)
              /\ fuel_types[id].stock_litres =
                   InitialStock(id) + log[r].litres - log[s].litres
              /\ Cardinality(SaleRows(id)) = 1
           \/ /\ log[s].outcome = "InsufficientStock"
              /\ fuel_types[id].stock_litres = InitialStock(id) + log[r].litres
              /\ SaleRows(id) = {}
        /\ log[r].end_at < log[s].begin_at => IsOk(s)
        /\ log[s].end_at < log[r].end_at => ~IsOk(s)

\* The only calls on fuel type id since its creation are the sale of w and a
\* refill of rl litres that has committed (Done) or is in progress (Pending).
C26_SaleAt(id, w) ==
  /\ tx[w].op = "record_sale" /\ tx[w].pc = "sale_stmt" /\ tx[w].id = id
  /\ id \in DOMAIN fuel_types
  /\ CreatesOf(id) # {}
  /\ \A c \in CreatesOf(id) : log[c].end_at < tx[w].now

C26_RefillDone(id, w, rl) ==
  /\ \E r \in RefillsOn(id) :
       /\ IsOk(r) /\ log[r].litres = rl
       /\ CallsOn(id) = CreatesOf(id) \cup {r}
  /\ \A v \in Workers \ {w} : ~(tx[v].pc # "idle" /\ tx[v].id = id)

C26_RefillPending(id, w, rl) ==
  /\ CallsOn(id) = CreatesOf(id)
  /\ \E v \in Workers \ {w} :
       /\ tx[v].op = "refill_stock" /\ tx[v].id = id /\ tx[v].litres = rl
       /\ \A u \in Workers \ {w, v} : ~(tx[u].pc # "idle" /\ tx[u].id = id)

C26_DecrementStep ==
  \A w \in Workers : \A id \in IdInputs : \A rl \in LitresInputs :
    ( /\ C26_SaleAt(id, w)
      /\ tx'[w] # tx[w]
      /\ InitialStock(id) < tx[w].litres
      /\ tx[w].litres <= InitialStock(id) + rl ) =>
        /\ C26_RefillDone(id, w, rl) =>
             /\ tx'[w].pc = "commit"
             /\ Len(tx'[w].w_sale) = 1
             /\ tx'[w].w_ft[id].stock_litres = InitialStock(id) + rl - tx[w].litres
        /\ C26_RefillPending(id, w, rl) =>
             /\ tx'[w].pc = "sale_exists"
             /\ tx'[w].w_sale = <<>>

C26_RefillVersusSale == []C26_Outcome /\ [][C26_DecrementStep]_vars

\* The sale overlapped the refill, ran its decrement while the refill was
\* uncommitted and failed; the refill committed.
C26_Witness ==
  \E id \in DOMAIN fuel_types :
    \E r, s \in CallsOn(id) :
      /\ C26_Case(id, r, s)
      /\ Overlap(r, s)
      /\ log[r].begin_at < log[s].begin_at
      /\ log[s].outcome = "InsufficientStock"
      /\ fuel_types[id].stock_litres = InitialStock(id) + log[r].litres

\* C27: every engine operation runs in one transaction that commits all of its
\* writes or none. A call that ends with anything but success leaves the
\* committed state as it was; the store changes only in the step that ends a
\* call with success, and that step brings all of the call's effects at once:
\* the Sale with its stock decrement, the closed segment with the price update
\* and the new open segment, the fuel type with its first segment.
C27_OkEffect(t) ==
  LET id == t.id
      n == Len(fuel_price_history)
  IN CASE t.op = "record_sale" ->
            /\ Len(sales') = Len(sales) + 1
            /\ SubSeq(sales', 1, Len(sales)) = sales
            /\ sales'[Len(sales')].fuel_type_id = id
            /\ sales'[Len(sales')].litres = t.litres
            /\ fuel_types' = [fuel_types EXCEPT ![id].stock_litres = @ - t.litres,
                                                ![id].updated_at = t.now]
            /\ UNCHANGED fuel_price_history
       [] t.op = "refill_stock" ->
            /\ fuel_types' = [fuel_types EXCEPT ![id].stock_litres = @ + t.litres,
                                                ![id].updated_at = t.now]
            /\ UNCHANGED <<fuel_price_history, sales>>
       [] t.op = "update_price" ->
            /\ fuel_types' = [fuel_types EXCEPT ![id].price_per_litre = t.price,
                                                ![id].updated_at = t.now]
            /\ Len(fuel_price_history') = n + 1
            /\ fuel_price_history'[n + 1] =
                 [fuel_type_id |-> id, price_per_litre |-> t.price,
                  valid_from |-> t.now, valid_to |-> {}]
            /\ \A k \in 1..n :
                 \/ fuel_price_history'[k] = fuel_price_history[k]
                 \/ /\ fuel_price_history[k].fuel_type_id = id
                    /\ fuel_price_history[k].valid_to = {}
                    /\ fuel_price_history'[k] = CloseSeg(fuel_price_history[k], t.now)
            /\ UNCHANGED sales
       [] OTHER ->
            /\ id \notin DOMAIN fuel_types
            /\ DOMAIN fuel_types' = DOMAIN fuel_types \cup {id}
            /\ \A k \in DOMAIN fuel_types : fuel_types'[k] = fuel_types[k]
            /\ fuel_types'[id].price_per_litre = t.price
            /\ fuel_types'[id].stock_litres = t.litres
            /\ fuel_price_history' =
                 Append(fuel_price_history,
                        [fuel_type_id |-> id, price_per_litre |-> t.price,
                         valid_from |-> t.now, valid_to |-> {}])
            /\ UNCHANGED sales

C27_EndStep ==
  \A w \in Workers :
    (tx[w].pc # "idle" /\ tx'[w].pc = "idle") =>
      IF log'[Len(log')].outcome = "ok"
      THEN C27_OkEffect(tx[w])
      ELSE UNCHANGED db

C27_OnlyAtEnd ==
  db' # db => \E w \in Workers : tx[w].pc # "idle" /\ tx'[w].pc = "idle"

C27_AllOrNothing == [][C27_EndStep /\ C27_OnlyAtEnd]_vars

\* A creation that had inserted its row was rolled back, and a sale or a price
\* change was committed.
C27_Witness ==
  /\ \E i \in FailedCreates : log[i].outcome = "StoreFailure" /\ log[i].id \notin DOMAIN fuel_types
  /\ \E i \in LogIdx : IsOk(i) /\ log[i].op \in {"record_sale", "update_price"}

\* One call applied as an atomic transition to the tuple (price, stock) of a
\* fuel type, with the Sale rows written so far; ok records whether the outcome
\* and the returned values of the call are those of this transition.
SerialStep(st, e) ==
  CASE e.op = "record_sale" ->
         IF st.stock >= e.litres
         THEN [price |-> st.price,
               stock |-> st.stock - e.litres,
               rows |-> Append(st.rows, [litres |-> e.litres, price_at_sale |-> st.price,
                                         amount |-> sale_amount(e.litres, st.price)]),
               ok |-> /\ st.ok /\ e.outcome = "ok"
                      /\ e.ret.price = st.price
                      /\ e.ret.amount = sale_amount(e.litres, st.price)]
         ELSE [st EXCEPT !.ok = st.ok /\ e.outcome = "InsufficientStock"]
    [] e.op = "refill_stock" ->
         [st EXCEPT !.stock = st.stock + e.litres,
                    !.ok = /\ st.ok /\ e.outcome = "ok"
                           /\ e.ret.stock = st.stock + e.litres]
    [] e.op = "update_price" ->
         [st EXCEPT !.price = e.price, !.ok = st.ok /\ e.outcome = "ok"]
    [] OTHER -> [st EXCEPT !.ok = FALSE]

\* The calls order[k..] applied one after another from st.
RECURSIVE SerialRun(_, _, _)
SerialRun(order, k, st) ==
  IF k > Len(order) THEN st
  ELSE SerialRun(order, k + 1, SerialStep(st, log[order[k]]))

\* All orders of the calls in S.
Orders(S) ==
  { f \in [1..Cardinality(S) -> S] : \A a, b \in DOMAIN f : f[a] = f[b] => a = b }

\* The number of committed Sale rows of fuel type id equal to x in litres,
\* price_at_sale and amount, and the number of such rows in a sequence.
CommittedCount(id, x) ==
  Cardinality({ n \in SaleRows(id) :
                  /\ sales[n].litres = x.litres
                  /\ sales[n].price_at_sale = x.price_at_sale
                  /\ sales[n].amount = x.amount })
RowCount(rows, x) == Cardinality({ n \in 1..Len(rows) : rows[n] = x })

SameRows(id, rows) ==
  /\ Len(rows) = Cardinality(SaleRows(id))
  /\ \A n \in 1..Len(rows) : CommittedCount(id, rows[n]) = RowCount(rows, rows[n])

\* The calls made on fuel type id since its creation.
OpsOn(id) == CallsOn(id) \ CreatesOf(id)

\* C28: serializability of (price, stock): for every concurrent execution of
\* update_price, refill_stock and record_sale calls on one fuel type, the final
\* committed price and stock, the committed Sale rows (litres, price_at_sale,
\* amount) and the outcome of every call are those of some serial execution of
\* the same calls.
C28_Case(id) ==
  /\ ~Busy(id)
  /\ Cardinality(CreatesOf(id)) = 1
  /\ OpsOn(id) # {}
  /\ \A i \in OpsOn(id) :
       /\ log[i].op \in {"update_price", "refill_stock", "record_sale"}
       /\ AfterCreate(id, i)

C28_Serializable ==
  \A id \in DOMAIN fuel_types :
    C28_Case(id) =>
      \E order \in Orders(OpsOn(id)) :
        LET c == CHOOSE x \in CreatesOf(id) : TRUE
            fin == SerialRun(order, 1, [price |-> log[c].price, stock |-> log[c].litres,
                                        rows |-> <<>>, ok |-> TRUE])
        IN /\ fin.ok
           /\ fin.price = fuel_types[id].price_per_litre
           /\ fin.stock = fuel_types[id].stock_litres
           /\ SameRows(id, fin.rows)

\* A sale began before a price change did, overlapped it, and recorded the new
\* price: the matching serial order is the reverse of the order of arrival.
C28_Witness ==
  \E id \in DOMAIN fuel_types :
    \E u, s \in OpsOn(id) :
      /\ C28_Case(id)
      /\ OpsOn(id) = {u, s}
      /\ log[u].op = "update_price" /\ log[s].op = "record_sale" /\ IsOk(s)
      /\ log[s].begin_at < log[u].begin_at
      /\ log[s].ret.price = log[u].price
      /\ log[s].ret.price # fuel_price_history[1].price_per_litre

\* C29: no operation bases a write on a condition it evaluated in an earlier,
\* separate store statement: when the statement that writes runs, the condition
\* that let the operation get there still holds in the committed state, for
\* create_fuel_type (no fuel type of that name), update_price and refill_stock
\* (the row exists) and record_sale (the row exists with stock >= litres).
C29_WriteStep ==
  \A w \in Workers :
    tx'[w] # tx[w] =>
      /\ tx[w].pc = "create_insert" => ~name_exists(tx[w].name)
      /\ (tx[w].pc \in {"sale_stmt", "sale_wait"} /\ tx'[w].w_sale # <<>>) =>
           /\ tx[w].id \in DOMAIN fuel_types
           /\ sale_where(fuel_types[tx[w].id], tx[w].litres)
      /\ (tx[w].pc \in {"refill_stmt", "refill_wait", "price_update", "price_update_wait"}
            /\ tx'[w].w_ft # <<>>) => tx[w].id \in DOMAIN fuel_types
      /\ tx[w].pc = "price_insert" => tx[w].id \in DOMAIN fuel_types

C29_NoCheckThenAct == [][C29_WriteStep]_vars

\* C30: a committed Sale row is immutable and permanent: no later operation
\* changes its fuel_type_id, litres, price_at_sale, amount or sold_at, or
\* deletes it; a later update_price leaves the price_at_sale and amount of
\* earlier sales as they are.
C30_SaleStep ==
  /\ Len(sales') >= Len(sales)
  /\ \A n \in 1..Len(sales) : sales'[n] = sales[n]

C30_SalesImmutable == [][C30_SaleStep]_vars

\* A price change committed after a sale; the Sale row still has the price and
\* amount the sale returned, which is no longer the live price.
C30_Witness ==
  \E s, u \in LogIdx :
    /\ log[s].op = "record_sale" /\ IsOk(s)
    /\ log[u].op = "update_price" /\ IsOk(u) /\ log[u].id = log[s].id
    /\ log[s].end_at < log[u].end_at
    /\ \E n \in SaleRows(log[s].id) :
         /\ sales[n].price_at_sale = log[s].ret.price
         /\ sales[n].amount = log[s].ret.amount
         /\ sales[n].sold_at = log[s].ret.at
         /\ sales[n].price_at_sale # fuel_types[log[s].id].price_per_litre

\* C31: price history is append-only: no step deletes a segment or changes the
\* fuel type, price or valid_from of a segment, and the valid_to of a segment
\* changes at most once, from unset to a timestamp; a closed segment is never
\* changed again by a later update_price.
C31_SegmentStep ==
  /\ Len(fuel_price_history') >= Len(fuel_price_history)
  /\ \A i \in 1..Len(fuel_price_history) :
       LET old == fuel_price_history[i]
           new == fuel_price_history'[i]
       IN /\ new.fuel_type_id = old.fuel_type_id
          /\ new.price_per_litre = old.price_per_litre
          /\ new.valid_from = old.valid_from
          /\ \/ new.valid_to = old.valid_to
             \/ old.valid_to = {} /\ Cardinality(new.valid_to) = 1

C31_AppendOnly == [][C31_SegmentStep]_vars

\* Two update_price calls on one fuel type committed one after the other, the
\* second having waited for the first to release the segment: the segment the
\* first one closed still ends when the first one closed it.
C31_Witness ==
  \E u, v \in PriceUpdates :
    /\ IsOk(u) /\ IsOk(v) /\ log[u].id = log[v].id
    /\ log[u].end_at < log[v].end_at
    /\ Overlap(u, v)
    /\ \E i \in Segs(log[u].id) :
         /\ fuel_price_history[i].valid_from < log[u].begin_at
         /\ fuel_price_history[i].valid_to = {log[u].ret.at}

\* C32: refill_stock with litres > 0 on a fuel type that exists always
\* succeeds, whatever the stock: there is no stock at which a refill is
\* rejected or fails.
C32_RefillAlwaysSucceeds ==
  \A r \in Refills :
    (CreatesOf(log[r].id) # {} /\ AfterCreate(log[r].id, r)) => IsOk(r)

\* C33: the read operations (list_fuel_types, list_inventory, list_sales,
\* sales_overview, sales_timeseries, sales_by_fuel_type, price_history) leave
\* every fuel type, segment and sale as it is, for any parameters, also when
\* they run beside mutating operations: a reading session never holds a write,
\* and no step of a reading session changes the store.
C33_NoWrites ==
  \A w \in Workers :
    tx[w].op \in ReadOps =>
      /\ tx[w].w_ft = <<>> /\ tx[w].w_close = {}
      /\ tx[w].w_hist = <<>> /\ tx[w].w_sale = <<>>

C33_ReadStep ==
  \A w \in Workers :
    (tx'[w].pc # tx[w].pc /\ (tx[w].op \in ReadOps \/ tx'[w].op \in ReadOps)) =>
      UNCHANGED <<db, fuel_types_id_seq>>

C33_ReadsChangeNothing == []C33_NoWrites /\ [][C33_ReadStep]_vars

\* A read that has its rows and has not returned yet, while a price change
\* went through: the rows it holds are no longer those of the store, and
\* another writer is at work.
C33_Witness ==
  \E r \in Workers :
    /\ tx[r].op = "list_fuel_types" /\ tx[r].pc = "read_done"
    /\ tx[r].result # list_fuel_types
    /\ \E w \in Workers : tx[w].w_ft # <<>>

\* C34: price_history(fuel_type_id, start, end) returns exactly the segments of
\* that fuel type that overlap the queried range (valid_to unset or
\* valid_to >= start when start is given, valid_from <= end when end is given),
\* in ascending order of valid_from, and all its segments when neither bound
\* is given.
C34_Overlapping(t) ==
  { i \in Segs(t.id) :
      /\ t.start # {} =>
           \/ fuel_price_history[i].valid_to = {}
           \/ \E v \in fuel_price_history[i].valid_to : \E s \in t.start : v >= s
      /\ t.end # {} => \E e \in t.end : fuel_price_history[i].valid_from <= e }

C34_Step ==
  \A w \in Workers :
    (tx[w].pc = "idle" /\ tx'[w].op = "price_history") =>
      LET t == tx'[w]
          rows == t.result
          Q == C34_Overlapping(t)
      IN /\ Len(rows) = Cardinality(Q)
         /\ \E f \in [1..Len(rows) -> Q] :
              /\ \A j, k \in 1..Len(rows) : j # k => f[j] # f[k]
              /\ \A k \in 1..Len(rows) :
                   /\ rows[k].valid_from = fuel_price_history[f[k]].valid_from
                   /\ rows[k].valid_to = fuel_price_history[f[k]].valid_to
                   /\ rows[k].price_per_litre =
                        << fuel_price_history[f[k]].price_per_litre \div 1000,
                           fuel_price_history[f[k]].price_per_litre % 1000 >>
         /\ \A j, k \in 1..Len(rows) : j < k => rows[j].valid_from <= rows[k].valid_from
         /\ (t.start = {} /\ t.end = {}) => Len(rows) = Cardinality(Segs(t.id))

C34_PriceHistoryOverlap == [][C34_Step]_vars

\* A price_history with a start that returned two segments, one of them ending
\* exactly at the start of the range, and left out an earlier one.
C34_Witness ==
  \E r \in Workers :
    /\ tx[r].op = "price_history" /\ tx[r].pc = "read_done"
    /\ tx[r].start # {}
    /\ Len(tx[r].result) = 2
    /\ tx[r].result[1].valid_to = tx[r].start
    /\ tx[r].result[2].valid_to = {}
    /\ Cardinality(Segs(tx[r].id)) = 3

\* C35: a record_sale ends with InsufficientStock only if, at the instant of
\* its conditional decrement, the fuel type existed with a committed stock
\* below the litres asked for, and with NotFound only if the fuel type did not
\* exist at that instant, also when a create_fuel_type or refill_stock on the
\* same id commits between the failed decrement and the existence check. On a
\* fuel type that saw only its creation and the sale, the stock was the initial
\* stock at every instant at which the fuel type existed: InsufficientStock then
\* means the sale asked for more than the initial stock, and NotFound that the
\* creation had not committed when the sale began.
C35_FailureReflectsDecrement ==
  \A s \in Sales :
    LET id == log[s].id IN
      CallsOn(id) = CreatesOf(id) \cup {s} =>
        /\ log[s].outcome = "InsufficientStock" =>
             /\ CreatesOf(id) # {}
             /\ InitialStock(id) < log[s].litres
        /\ log[s].outcome = "NotFound" =>
             \A c \in CreatesOf(id) : log[c].end_at > log[s].begin_at

\* C36: in every committed state every open-ended segment of a fuel type
\* carries the current price_per_litre of the fuel type, after any sequence
\* and interleaving of create_fuel_type and update_price.
C36_OpenSegmentHasLivePrice ==
  \A id \in DOMAIN fuel_types :
    \A i \in OpenSegs(id) :
      fuel_price_history[i].price_per_litre = fuel_types[id].price_per_litre

\* C37: every closed segment has valid_from <= valid_to, also when
\* update_price transactions on one fuel type start in one order and run
\* their close step in the opposite order.
C37_ClosedSegmentOrdered ==
  \A i \in 1..Len(fuel_price_history) :
    \A t \in fuel_price_history[i].valid_to : fuel_price_history[i].valid_from <= t

\* C38: in every committed state the number of segments of a fuel type is 1
\* plus the number of update_price calls on it that returned success, under
\* any interleaving; failed update_price calls add none.
C38_SegmentCount ==
  \A id \in DOMAIN fuel_types :
    Cardinality(Segs(id)) = 1 + Cardinality({ u \in PriceUpdatesOn(id) : IsOk(u) })

\* No segment belongs to a fuel type that does not exist: an update_price that
\* ended with NotFound left none behind.
C38_NoStraySegment ==
  \A i \in 1..Len(fuel_price_history) :
    fuel_price_history[i].fuel_type_id \in DOMAIN fuel_types

C38_OneSegmentPerSuccess == C38_SegmentCount /\ C38_NoStraySegment

\* Two update_price calls on one fuel type that overlapped and both succeeded,
\* and one that failed: three segments.
C38_Witness ==
  \E u, v \in PriceUpdates :
    /\ u # v /\ IsOk(u) /\ IsOk(v) /\ log[u].id = log[v].id /\ Overlap(u, v)
    /\ Cardinality(Segs(log[u].id)) = 3

\* The fuel types other than id, and the segments and the sales of fuel types
\* other than id, are the same after the step.
C39_OthersUntouched(id) ==
  /\ \A k \in DOMAIN fuel_types \ {id} : fuel_types'[k] = fuel_types[k]
  /\ \A i \in 1..Len(fuel_price_history) :
       fuel_price_history[i].fuel_type_id # id =>
         fuel_price_history'[i] = fuel_price_history[i]
  /\ \A i \in 1..Len(fuel_price_history') :
       i > Len(fuel_price_history) => fuel_price_history'[i].fuel_type_id = id
  /\ \A n \in 1..Len(sales') : n > Len(sales) => sales'[n].fuel_type_id = id

\* C39: each mutating operation changes only its own fields of its own fuel
\* type: update_price leaves the stock and all sales as they are; refill_stock
\* leaves the price, all history segments and all sales as they are;
\* record_sale leaves the price and all history segments as they are; none
\* changes the id or name of a fuel type, deletes a fuel type, or changes the
\* price, stock, segments or sales of another fuel type.
C39_OwnFieldsStep ==
  \A w \in Workers :
    (tx[w].pc # "idle" /\ tx'[w].pc = "idle" /\ tx[w].op # "create_fuel_type") =>
      LET id == tx[w].id IN
        /\ DOMAIN fuel_types' = DOMAIN fuel_types
        /\ \A k \in DOMAIN fuel_types : fuel_types'[k].name = fuel_types[k].name
        /\ \A n \in 1..Len(sales) : sales'[n] = sales[n]
        /\ C39_OthersUntouched(id)
        /\ tx[w].op = "update_price" =>
             /\ Len(sales') = Len(sales)
             /\ id \in DOMAIN fuel_types =>
                  fuel_types'[id].stock_litres = fuel_types[id].stock_litres
        /\ tx[w].op = "refill_stock" =>
             /\ UNCHANGED <<fuel_price_history, sales>>
             /\ id \in DOMAIN fuel_types =>
                  fuel_types'[id].price_per_litre = fuel_types[id].price_per_litre
        /\ tx[w].op = "record_sale" =>
             /\ UNCHANGED fuel_price_history
             /\ id \in DOMAIN fuel_types =>
                  fuel_types'[id].price_per_litre = fuel_types[id].price_per_litre

C39_OwnFieldsOnly == [][C39_OwnFieldsStep]_vars

\* Two fuel types, and an update_price, refill_stock or record_sale on the
\* first one that committed once the second one existed.
C39_Witness ==
  /\ Cardinality(DOMAIN fuel_types) = 2
  /\ \E c, m \in LogIdx :
       /\ log[c].op = "create_fuel_type" /\ IsOk(c)
       /\ log[m].op \in {"update_price", "refill_stock", "record_sale"} /\ IsOk(m)
       /\ log[m].id # log[c].id
       /\ log[c].end_at < log[m].end_at

\* C40: under any interleaving of concurrent create_fuel_type, update_price,
\* refill_stock and record_sale calls no set of calls deadlocks on row locks:
\* when every transaction that can go on is scheduled, every call ends, with
\* exactly one outcome (success, Validation, NotFound, Conflict,
\* InsufficientStock or an internal error) and without retrying: a call in
\* flight never begins another transaction, and its end adds one entry.
C40_Outcome ==
  \A i \in LogIdx :
    log[i].outcome \in { "ok", "Validation", "NotFound", "Conflict",
                         "InsufficientStock", "Internal", "StoreFailure" }

C40_EndStep ==
  /\ Len(log') <= Len(log) + 1
  /\ \A w \in Workers :
       /\ (tx[w].pc # "idle" /\ tx'[w].pc = "idle") =>
            /\ Len(log') = Len(log) + 1
            /\ log'[Len(log')].op = tx[w].op
            /\ log'[Len(log')].begin_at = tx[w].now
       /\ (tx[w].pc # "idle" /\ tx'[w].pc # "idle") =>
            /\ tx'[w].now = tx[w].now
            /\ tx'[w].op = tx[w].op
            /\ calls'[w] = calls[w]
            /\ tx'[w].pc # tx[w].pc => Len(log') = Len(log)

C40_Ends == \A w \in Workers : (tx[w].pc # "idle") ~> (tx[w].pc = "idle")

C40_EveryCallEnds == C40_Ends /\ []C40_Outcome /\ [][C40_EndStep]_vars

\* A statement waits for a lock another transaction holds, and that
\* transaction has itself waited for a lock before: the two calls contend for
\* the segment and for the row of one fuel type.
C40_Witness ==
  \E w, v \in Workers :
    /\ tx[w].pc \in {"sale_wait", "refill_wait", "price_update_wait", "price_close_wait"}
    /\ tx[v].pc \in {"price_insert", "commit"}
    /\ tx[w].id \in DOMAIN tx[v].w_ft
    /\ tx[v].op = "update_price"

====
